---- MODULE Spec2Model ----
(***************************************************************************)
(* Remote session and authorization subsystem of Nano-Banana-MCP.          *)
(*                                                                         *)
(*   src/src/auth.ts    InMemoryClientsStore, GeminiKeyOAuthProvider       *)
(*   src/src/remote.ts  session table, reclaim sweep, /mcp routes          *)
(*                                                                         *)
(* Node runs every handler on one thread: a handler body runs without      *)
(* interruption up to its next await, so one action of this module is one  *)
(* such run-to-completion segment.  Identifiers that the code draws from   *)
(* randomUUID / randomBytes are modelled as fresh counters.  Time is       *)
(* Date.now() in milliseconds.                                             *)
(***************************************************************************)
EXTENDS Integers, Sequences, FiniteSets, TLC

(***************************************************************************)
(* Bounds of the model.                                                    *)
(***************************************************************************)
MaxClients == 1
MaxCodes == 2
MaxTokReqs == 2
MaxSessions == 1
MaxHalfHours == 2
MaxCalls == 3

(***************************************************************************)
(* Program constants.                                                      *)
(***************************************************************************)
TOKEN_TTL_SECONDS == 3600
SESSION_TIMEOUT_MS == 1800000
MsPerSecond == 1000

(***************************************************************************)
(* The instants the clock may show: around every multiple of the session   *)
(* timeout (half of the token lifetime), on the boundary (a whole second)  *)
(* and one millisecond after it.                                           *)
(***************************************************************************)
Offsets == {0, 1}
Instants == { k * SESSION_TIMEOUT_MS + o : k \in 0..MaxHalfHours, o \in Offsets }

(***************************************************************************)
(* Values the callers supply.                                              *)
(***************************************************************************)
ClientIds == 1..(MaxClients + 1)
CodeIds == 1..(MaxCodes + 1)
TokenIds == 1..(MaxCodes + 1)
ApiKeys == {"AIzaK1", "k&<\"2"}
ClientMetadata == { [client_name |-> "app", redirect_uris |-> <<"https://app/cb">>] }
\* A form field is a string, "" when the field is absent or empty (both are
\* falsy in the handler).  The scopes field is kept as its characters so that
\* String.split can be computed; <<>> is the empty string.
\* The bodies posted to /oauth/authorize/submit: two complete submissions
\* that differ in every field, for every client identifier a caller may
\* name, and one incomplete submission for every required field.
FormProfiles ==
    { [redirect_uri |-> "https://app/cb", code_challenge |-> "ch1", state |-> "",
       scopes |-> <<>>, gemini_api_key |-> "AIzaK1"],
      [redirect_uri |-> "https://app/cb", code_challenge |-> "ch2", state |-> "st",
       scopes |-> <<"r", " ", "w">>, gemini_api_key |-> "k&<\"2"] }
WithClient(p, c) ==
    [client_id |-> c, redirect_uri |-> p.redirect_uri, code_challenge |-> p.code_challenge,
     state |-> p.state, scopes |-> p.scopes, gemini_api_key |-> p.gemini_api_key]
FormBodies ==
    LET complete == { WithClient(p, c) : p \in FormProfiles, c \in ClientIds }
        one == WithClient(CHOOSE p \in FormProfiles : p.state = "", 1)
    IN  complete
        \cup { [one EXCEPT !.client_id = 0],
               [one EXCEPT !.redirect_uri = ""],
               [one EXCEPT !.code_challenge = ""],
               [one EXCEPT !.gemini_api_key = ""] }

VARIABLES
    SERVER_API_KEY, \* process.env.GEMINI_API_KEY, {} when unset
    oauthEnabled, \* PUBLIC_URL !== null
    now,          \* Date.now(), ms
    clients,      \* InMemoryClientsStore.clients
    nextClient,   \* next value of randomUUID() for a client_id
    codes,        \* GeminiKeyOAuthProvider.codes
    nextCode,     \* next value of randomBytes(32)
    tokens,       \* GeminiKeyOAuthProvider.tokens
    nextToken,    \* next value of randomBytes(48)
    tokReq,       \* token-endpoint requests in flight
    passed,       \* history: token requests per code that got past the challenge
    failed,       \* history: those of them whose exchange threw
    okCount,      \* history: exchanges of each code that returned a token
    issued,       \* history: the form body each code was issued for
    grantOf,      \* history: the code each token was exchanged for and
                  \*          the expiry stored for it
    verifiedLate, \* history: tokens verifyAccessToken was called on after expiry
    sessions,     \* the session table of remote.ts
    transport,    \* every StreamableHTTPServerTransport created so far
    nextTransport, \* next transport / adapter to be constructed
    opening,      \* adapters of session-open requests awaiting connectTransport
    deleting,     \* DELETE requests inside or after transport.handleRequest
    responding,   \* accepted session-open requests whose response is not yet sent
    cleanupTimer, \* whether the cleanupInterval timer is set
    listening,    \* whether the HTTP server accepts new connections
    connected,    \* whether some client holds a connection to the server open
    exited,       \* whether process.exit has been called
    createdAt,    \* history: when each session of the table was put there
    lastRouted,   \* history: when each session of the table was created or last routed to
    reclaimed,    \* history: sessions a reclaim sweep removed
    spared,       \* history: sessions a sweep has kept since their last routed request
    closedIds,    \* history: sessions a DELETE request removed
    chatSession,  \* one adapter's ChatSessionManager: its chat and currentConfig
    lastImagePath, \* that adapter's lastImagePath, 0 for null
    nextImage,    \* next file name saveImageFromBase64 makes up
    calls         \* history: the tool calls that adapter has served

raceVars == <<passed, failed>>
authVars == <<clients, nextClient, codes, nextCode, tokens, nextToken, tokReq, raceVars>>
histVars == <<okCount, issued, grantOf, verifiedLate>>
cfgVars == <<SERVER_API_KEY, oauthEnabled>>
sessVars == <<sessions, transport, nextTransport, opening, deleting, responding>>
lifeVars == <<cleanupTimer, listening, connected, exited>>
sessHist == <<createdAt, lastRouted, reclaimed, spared, closedIds>>
toolVars == <<chatSession, lastImagePath, nextImage, calls>>
vars == <<cfgVars, now, authVars, histVars, sessVars, sessHist, lifeVars, toolVars>>

(***************************************************************************)
(* Helpers.  An optional value (T | undefined) is the set {} or {x}.       *)
(***************************************************************************)
Undefined == {}
Some(x) == {x}
The(opt) == CHOOSE x \in opt : TRUE
Remove(f, k) == [x \in DOMAIN f \ {k} |-> f[x]]
Put(f, k, v) == [x \in DOMAIN f \cup {k} |-> IF x = k THEN v ELSE f[x]]

\* String.prototype.split(" ") on a string given as its characters.
RECURSIVE SplitSpace(_)
SplitSpace(s) ==
    IF \A i \in 1..Len(s) : s[i] # " "
    THEN <<s>>
    ELSE LET i == CHOOSE j \in 1..Len(s) : s[j] = " " /\ \A k \in 1..(j - 1) : s[k] # " "
         IN  <<SubSeq(s, 1, i - 1)>> \o SplitSpace(SubSeq(s, i + 1, Len(s)))

(***************************************************************************)
(* InMemoryClientsStore                                                    *)
(***************************************************************************)
\* A lookup that answers for an unknown identifier with some registered client.
getClient_fallsBack(clientId) ==
    IF clientId \in DOMAIN clients THEN Some(clients[clientId])
    ELSE IF clients # <<>> THEN Some(clients[CHOOSE id \in DOMAIN clients : TRUE])
    ELSE Undefined

getClient(clientId) ==
    IF clientId \in DOMAIN clients THEN Some(clients[clientId]) ELSE Undefined

registerClient(client) ==
    [client_name |-> client.client_name,
     redirect_uris |-> client.redirect_uris,
     client_id |-> nextClient,
     client_id_issued_at |-> now \div MsPerSecond]

(***************************************************************************)
(* GeminiKeyOAuthProvider: each method as a function of the maps it reads, *)
(* giving what it returns or throws and the maps it leaves behind.         *)
(***************************************************************************)
\* Faulty variants of the provider's methods, which the properties below tell apart.
completeAuthorization_storesChallenge(cds, client, params, geminiApiKey) ==
    LET code == nextCode
    IN  [code |-> code,
         codes |-> Put(cds, code, [client |-> client, params |-> params,
                                   geminiApiKey |-> params.codeChallenge]),
         redirect |-> [url |-> params.redirectUri, code |-> code, state |-> params.state]]

exchangeAuthorizationCode_keepsCode(cds, tks, time, authorizationCode) ==
    IF authorizationCode \notin DOMAIN cds
    THEN [status |-> "error", val |-> "Unknown authorization code",
          codes |-> cds, tokens |-> tks]
    ELSE [status |-> "ok",
          val |-> [access_token |-> nextToken, token_type |-> "bearer",
                   expires_in |-> TOKEN_TTL_SECONDS],
          codes |-> cds,
          tokens |-> Put(tks, nextToken,
                         [clientId |-> cds[authorizationCode].client.client_id,
                          scopes |-> IF cds[authorizationCode].params.scopes = Undefined
                                     THEN <<>> ELSE The(cds[authorizationCode].params.scopes),
                          expiresAt |-> (time \div MsPerSecond) + TOKEN_TTL_SECONDS,
                          geminiApiKey |-> cds[authorizationCode].geminiApiKey])]

exchangeAuthorizationCode_dropsScopes(cds, tks, time, authorizationCode) ==
    IF authorizationCode \notin DOMAIN cds
    THEN [status |-> "error", val |-> "Unknown authorization code",
          codes |-> cds, tokens |-> tks]
    ELSE [status |-> "ok",
          val |-> [access_token |-> nextToken, token_type |-> "bearer",
                   expires_in |-> TOKEN_TTL_SECONDS],
          codes |-> Remove(cds, authorizationCode),
          tokens |-> Put(tks, nextToken,
                         [clientId |-> cds[authorizationCode].client.client_id,
                          scopes |-> <<>>,
                          expiresAt |-> (time \div MsPerSecond) + TOKEN_TTL_SECONDS,
                          geminiApiKey |-> cds[authorizationCode].geminiApiKey])]

verifyAccessToken_keepsExpired(tks, time, token) ==
    IF token \notin DOMAIN tks
    THEN [status |-> "error", val |-> "Invalid access token", tokens |-> tks]
    ELSE IF time > tks[token].expiresAt * MsPerSecond
         THEN [status |-> "error", val |-> "Access token expired", tokens |-> tks]
         ELSE [status |-> "ok",
               val |-> [token |-> token, clientId |-> tks[token].clientId,
                        scopes |-> tks[token].scopes, expiresAt |-> tks[token].expiresAt],
               tokens |-> tks]

verifyAccessToken_leaksKey(tks, time, token) ==
    IF token \notin DOMAIN tks
    THEN [status |-> "error", val |-> "Invalid access token", tokens |-> tks]
    ELSE IF time > tks[token].expiresAt * MsPerSecond
         THEN [status |-> "error", val |-> "Access token expired",
               tokens |-> Remove(tks, token)]
         ELSE [status |-> "ok", val |-> tks[token] @@ [token |-> token], tokens |-> tks]

\* A key lookup that already refuses the token at the second of its expiry.
getGeminiApiKey_atExpiry(tks, time, accessToken) ==
    IF accessToken \notin DOMAIN tks
    THEN [val |-> Undefined, tokens |-> tks]
    ELSE IF time >= tks[accessToken].expiresAt * MsPerSecond
         THEN [val |-> Undefined, tokens |-> Remove(tks, accessToken)]
         ELSE [val |-> Some(tks[accessToken].geminiApiKey), tokens |-> tks]

getGeminiApiKey(tks, time, accessToken) ==
    IF accessToken \notin DOMAIN tks
    THEN [val |-> Undefined, tokens |-> tks]
    ELSE IF time > tks[accessToken].expiresAt * MsPerSecond
         THEN [val |-> Undefined, tokens |-> Remove(tks, accessToken)]
         ELSE [val |-> Some(tks[accessToken].geminiApiKey), tokens |-> tks]

\* A provider that keeps one pending grant: a new code displaces the others.
completeAuthorization_onePending(cds, client, params, geminiApiKey) ==
    LET code == nextCode
    IN  [code |-> code,
         codes |-> Put(<<>>, code, [client |-> client, params |-> params,
                                    geminiApiKey |-> geminiApiKey]),
         redirect |-> [url |-> params.redirectUri, code |-> code, state |-> params.state]]

\* A provider that hands out the same code again.
completeAuthorization_reusesCode(cds, client, params, geminiApiKey) ==
    LET code == 1
    IN  [code |-> code,
         codes |-> Put(cds, code, [client |-> client, params |-> params,
                                   geminiApiKey |-> geminiApiKey]),
         redirect |-> [url |-> params.redirectUri, code |-> code, state |-> params.state]]

completeAuthorization(cds, client, params, geminiApiKey) ==
    LET code == nextCode
    IN  [code |-> code,
         codes |-> Put(cds, code, [client |-> client, params |-> params,
                                   geminiApiKey |-> geminiApiKey]),
         redirect |-> [url |-> params.redirectUri, code |-> code, state |-> params.state]]

challengeForAuthorizationCode(cds, authorizationCode) ==
    IF authorizationCode \notin DOMAIN cds
    THEN [status |-> "error", val |-> "Unknown authorization code"]
    ELSE [status |-> "ok", val |-> cds[authorizationCode].params.codeChallenge]

\* An exchange that discards every pending code along with the one it consumes.
exchangeAuthorizationCode_clearsCodes(cds, tks, time, authorizationCode) ==
    IF authorizationCode \notin DOMAIN cds
    THEN [status |-> "error", val |-> "Unknown authorization code",
          codes |-> cds, tokens |-> tks]
    ELSE [status |-> "ok",
          val |-> [access_token |-> nextToken, token_type |-> "bearer",
                   expires_in |-> TOKEN_TTL_SECONDS],
          codes |-> <<>>,
          tokens |-> Put(tks, nextToken,
                         [clientId |-> cds[authorizationCode].client.client_id,
                          scopes |-> IF cds[authorizationCode].params.scopes = Undefined
                                     THEN <<>> ELSE The(cds[authorizationCode].params.scopes),
                          expiresAt |-> (time \div MsPerSecond) + TOKEN_TTL_SECONDS,
                          geminiApiKey |-> cds[authorizationCode].geminiApiKey])]

\* An exchange that remembers the codes it has consumed and says so.
exchangeAuthorizationCode_tellsUsed(cds, tks, time, authorizationCode) ==
    IF authorizationCode \notin DOMAIN cds
    THEN [status |-> "error",
          val |-> IF okCount[authorizationCode] > 0
                  THEN "Authorization code already used"
                  ELSE "Unknown authorization code",
          codes |-> cds, tokens |-> tks]
    ELSE [status |-> "ok",
          val |-> [access_token |-> nextToken, token_type |-> "bearer",
                   expires_in |-> TOKEN_TTL_SECONDS],
          codes |-> Remove(cds, authorizationCode),
          tokens |-> Put(tks, nextToken,
                         [clientId |-> cds[authorizationCode].client.client_id,
                          scopes |-> IF cds[authorizationCode].params.scopes = Undefined
                                     THEN <<>> ELSE The(cds[authorizationCode].params.scopes),
                          expiresAt |-> (time \div MsPerSecond) + TOKEN_TTL_SECONDS,
                          geminiApiKey |-> cds[authorizationCode].geminiApiKey])]

exchangeAuthorizationCode(cds, tks, time, authorizationCode) ==
    IF authorizationCode \notin DOMAIN cds
    THEN [status |-> "error", val |-> "Unknown authorization code",
          codes |-> cds, tokens |-> tks]
    ELSE LET pending == cds[authorizationCode]
             accessToken == nextToken
             expiresAt == (time \div MsPerSecond) + TOKEN_TTL_SECONDS
         IN  [status |-> "ok",
              val |-> [access_token |-> accessToken, token_type |-> "bearer",
                       expires_in |-> TOKEN_TTL_SECONDS],
              codes |-> Remove(cds, authorizationCode),
              tokens |-> Put(tks, accessToken,
                             [clientId |-> pending.client.client_id,
                              scopes |-> IF pending.params.scopes = Undefined
                                         THEN <<>> ELSE The(pending.params.scopes),
                              expiresAt |-> expiresAt,
                              geminiApiKey |-> pending.geminiApiKey])]

\* A refresh that fails the way an unknown access token does.
exchangeRefreshToken_asInvalidToken ==
    [status |-> "error", val |-> "Invalid access token"]

exchangeRefreshToken ==
    [status |-> "error", val |-> "Refresh tokens not supported"]

\* A verification that renews the token it accepts.
verifyAccessToken_slides(tks, time, token) ==
    IF token \notin DOMAIN tks
    THEN [status |-> "error", val |-> "Invalid access token", tokens |-> tks]
    ELSE IF time > tks[token].expiresAt * MsPerSecond
         THEN [status |-> "error", val |-> "Access token expired",
               tokens |-> Remove(tks, token)]
         ELSE [status |-> "ok",
               val |-> [token |-> token, clientId |-> tks[token].clientId,
                        scopes |-> tks[token].scopes, expiresAt |-> tks[token].expiresAt],
               tokens |-> [tks EXCEPT ![token].expiresAt =
                                          (time \div MsPerSecond) + TOKEN_TTL_SECONDS]]

verifyAccessToken(tks, time, token) ==
    IF token \notin DOMAIN tks
    THEN [status |-> "error", val |-> "Invalid access token", tokens |-> tks]
    ELSE IF time > tks[token].expiresAt * MsPerSecond
         THEN [status |-> "error", val |-> "Access token expired",
               tokens |-> Remove(tks, token)]
         ELSE [status |-> "ok",
               val |-> [token |-> token, clientId |-> tks[token].clientId,
                        scopes |-> tks[token].scopes, expiresAt |-> tks[token].expiresAt],
               tokens |-> tks]

\* A submission handler that does not ask for the secret.
authorizeSubmit_withoutSecret(cds, body) ==
    IF body.client_id = 0 \/ body.redirect_uri = "" \/ body.code_challenge = ""
    THEN [status |-> 400, val |-> "Missing required fields.", codes |-> cds]
    ELSE IF getClient(body.client_id) = Undefined
    THEN [status |-> 400, val |-> "Unknown client.", codes |-> cds]
    ELSE LET client == The(getClient(body.client_id))
             params == [redirectUri |-> body.redirect_uri,
                        codeChallenge |-> body.code_challenge,
                        state |-> IF body.state = "" THEN Undefined ELSE Some(body.state),
                        scopes |-> IF body.scopes = <<>> THEN Undefined
                                   ELSE Some(SplitSpace(body.scopes))]
             done == completeAuthorization(cds, client, params, body.gemini_api_key)
         IN  [status |-> 302, val |-> done.redirect, codes |-> done.codes]

(***************************************************************************)
(* POST /oauth/authorize/submit as a function of the posted body: the      *)
(* response and the code map it leaves behind.                             *)
(***************************************************************************)
authorizeSubmit(cds, body) ==
    IF body.client_id = 0 \/ body.redirect_uri = "" \/ body.code_challenge = ""
       \/ body.gemini_api_key = ""
    THEN [status |-> 400, val |-> "Missing required fields.", codes |-> cds]
    ELSE IF getClient(body.client_id) = Undefined
    THEN [status |-> 400, val |-> "Unknown client.", codes |-> cds]
    ELSE LET client == The(getClient(body.client_id))
             params == [redirectUri |-> body.redirect_uri,
                        codeChallenge |-> body.code_challenge,
                        state |-> IF body.state = "" THEN Undefined ELSE Some(body.state),
                        scopes |-> IF body.scopes = <<>> THEN Undefined
                                   ELSE Some(SplitSpace(body.scopes))]
             done == completeAuthorization(cds, client, params, body.gemini_api_key)
         IN  [status |-> 302, val |-> done.redirect, codes |-> done.codes]

(***************************************************************************)
(* Initial state: the process has just started.                            *)
(***************************************************************************)
IdleRequest == [pc |-> "idle", code |-> 0]

InitAuthState ==
    /\ now = 0
    /\ clients = <<>>
    /\ nextClient = 1
    /\ codes = <<>>
    /\ nextCode = 1
    /\ tokens = <<>>
    /\ nextToken = 1
    /\ tokReq = [r \in 1..MaxTokReqs |-> IdleRequest]
    /\ passed = [c \in CodeIds |-> 0]
    /\ failed = [c \in CodeIds |-> 0]
    /\ okCount = [c \in CodeIds |-> 0]
    /\ issued = <<>>
    /\ grantOf = <<>>
    /\ verifiedLate = {}

(***************************************************************************)
(* The clock.                                                              *)
(***************************************************************************)
TickTo(t) ==
    /\ ~exited
    /\ t > now
    /\ now' = t
    /\ UNCHANGED <<toolVars, cfgVars, authVars, histVars, sessVars, sessHist, lifeVars>>

Tick == \E t \in Instants : TickTo(t)

(***************************************************************************)
(* Dynamic client registration (the SDK's /register route calls            *)
(* clientsStore.registerClient).                                           *)
(***************************************************************************)
RegisterClient(client) ==
    /\ oauthEnabled
    /\ nextClient <= MaxClients
    /\ LET full == registerClient(client)
       IN  clients' = Put(clients, full.client_id, full)
    /\ nextClient' = nextClient + 1
    /\ UNCHANGED <<toolVars, cfgVars, now, codes, nextCode, tokens, nextToken, tokReq, raceVars,
                   histVars>>
    /\ UNCHANGED <<sessVars, sessHist, lifeVars>>

SubmitAuthorization(body) ==
    /\ oauthEnabled
    /\ LET res == authorizeSubmit(codes, body)
       IN  /\ res.status = 302 => nextCode <= MaxCodes
           /\ codes' = res.codes
           /\ nextCode' = IF res.status = 302 THEN nextCode + 1 ELSE nextCode
           /\ issued' = IF res.status = 302 THEN Put(issued, res.val.code, body) ELSE issued
    /\ UNCHANGED <<toolVars, cfgVars, now, clients, nextClient, tokens, nextToken, tokReq, raceVars,
                   okCount, grantOf, verifiedLate>>
    /\ UNCHANGED <<sessVars, sessHist, lifeVars>>

(***************************************************************************)
(* The provider's methods, called in any order by any number of callers.   *)
(* None of them awaits, so each call is one step.                          *)
(***************************************************************************)
ExchangeEffect(authorizationCode, res) ==
    /\ res.status = "ok" => nextToken <= MaxCodes
    /\ codes' = res.codes
    /\ tokens' = res.tokens
    /\ nextToken' = IF res.status = "ok" THEN nextToken + 1 ELSE nextToken
    /\ okCount' = IF res.status = "ok"
                  THEN [okCount EXCEPT ![authorizationCode] = @ + 1]
                  ELSE okCount
    /\ grantOf' = IF res.status = "ok"
                  THEN Put(grantOf, res.val.access_token,
                           [code |-> authorizationCode,
                            expiresAt |-> res.tokens[res.val.access_token].expiresAt])
                  ELSE grantOf

ChallengeForAuthorizationCode(authorizationCode) ==
    /\ oauthEnabled
    /\ challengeForAuthorizationCode(codes, authorizationCode).status \in {"ok", "error"}
    /\ UNCHANGED vars

ExchangeAuthorizationCode(authorizationCode) ==
    /\ oauthEnabled
    /\ ExchangeEffect(authorizationCode,
                      exchangeAuthorizationCode(codes, tokens, now, authorizationCode))
    /\ UNCHANGED <<toolVars, cfgVars, now, clients, nextClient, nextCode, tokReq, raceVars, issued,
                   verifiedLate>>
    /\ UNCHANGED <<sessVars, sessHist, lifeVars>>

ExchangeRefreshToken ==
    /\ oauthEnabled
    /\ exchangeRefreshToken.status = "error"
    /\ UNCHANGED vars

VerifyAccessToken(token) ==
    /\ oauthEnabled
    /\ tokens' = verifyAccessToken(tokens, now, token).tokens
    /\ verifiedLate' = IF token \in DOMAIN grantOf
                          /\ now > grantOf[token].expiresAt * MsPerSecond
                       THEN verifiedLate \cup {token}
                       ELSE verifiedLate
    /\ UNCHANGED <<toolVars, cfgVars, now, clients, nextClient, codes, nextCode, nextToken, tokReq,
                   raceVars, okCount, issued, grantOf>>
    /\ UNCHANGED <<sessVars, sessHist, lifeVars>>

GetGeminiApiKey(accessToken) ==
    /\ oauthEnabled
    /\ tokens' = getGeminiApiKey(tokens, now, accessToken).tokens
    /\ UNCHANGED <<toolVars, cfgVars, now, clients, nextClient, codes, nextCode, nextToken, tokReq,
                   raceVars, histVars>>
    /\ UNCHANGED <<sessVars, sessHist, lifeVars>>

(***************************************************************************)
(* The token endpoint, request by request.  The SDK's handler awaits       *)
(* challengeForAuthorizationCode and then, for a caller whose PKCE         *)
(* verifier matches, awaits exchangeAuthorizationCode: two segments per    *)
(* request, with other requests free to run in between.  passed and failed *)
(* count, per code, the requests that got past the challenge and those of  *)
(* them whose exchange threw.                                              *)
(***************************************************************************)
\* A challenge lookup that consumes the code it reads.
TokenChallenge_consumes(r, authorizationCode) ==
    /\ oauthEnabled
    /\ tokReq[r].pc = "idle"
    /\ LET res == challengeForAuthorizationCode(codes, authorizationCode)
       IN  /\ tokReq' = [tokReq EXCEPT ![r] =
                   IF res.status = "ok"
                   THEN [pc |-> "challenged", code |-> authorizationCode]
                   ELSE IdleRequest]
           /\ passed' = IF res.status = "ok"
                        THEN [passed EXCEPT ![authorizationCode] = @ + 1]
                        ELSE passed
    /\ codes' = Remove(codes, authorizationCode)
    /\ UNCHANGED <<toolVars, cfgVars, now, clients, nextClient, nextCode, tokens, nextToken,
                   failed, histVars>>
    /\ UNCHANGED <<sessVars, sessHist, lifeVars>>

TokenChallenge(r, authorizationCode) ==
    /\ oauthEnabled
    /\ tokReq[r].pc = "idle"
    /\ LET res == challengeForAuthorizationCode(codes, authorizationCode)
       IN  /\ tokReq' = [tokReq EXCEPT ![r] =
                   IF res.status = "ok"
                   THEN [pc |-> "challenged", code |-> authorizationCode]
                   ELSE IdleRequest]
           /\ passed' = IF res.status = "ok"
                        THEN [passed EXCEPT ![authorizationCode] = @ + 1]
                        ELSE passed
    /\ UNCHANGED <<toolVars, cfgVars, now, clients, nextClient, codes, nextCode, tokens, nextToken,
                   failed, histVars>>
    /\ UNCHANGED <<sessVars, sessHist, lifeVars>>

TokenExchange(r) ==
    /\ oauthEnabled
    /\ tokReq[r].pc = "challenged"
    /\ LET res == exchangeAuthorizationCode(codes, tokens, now, tokReq[r].code)
       IN  /\ ExchangeEffect(tokReq[r].code, res)
           /\ failed' = IF res.status = "ok"
                        THEN failed
                        ELSE [failed EXCEPT ![tokReq[r].code] = @ + 1]
    /\ tokReq' = [tokReq EXCEPT ![r] = IdleRequest]
    /\ UNCHANGED <<toolVars, cfgVars, now, clients, nextClient, nextCode, passed, issued, verifiedLate>>
    /\ UNCHANGED <<sessVars, sessHist, lifeVars>>

(***************************************************************************)
(* remote.ts: the session table and the /mcp routes.                       *)
(*                                                                         *)
(* A request is its Authorization header, its mcp-session-id header (0:    *)
(* absent) and its JSON body.  The header is absent, "Bearer " followed by *)
(* blanks, "Bearer <access token>" or "Bearer <any other text>".           *)
(***************************************************************************)
SessionIds == 1..(MaxSessions + 1)
NoHeader == [kind |-> "none", token |-> 0, text |-> ""]
Credentials ==
    {NoHeader, [kind |-> "blank", token |-> 0, text |-> ""]}
    \cup { [kind |-> "token", token |-> t, text |-> ""] : t \in TokenIds }
    \cup { [kind |-> "text", token |-> 0, text |-> k] : k \in ApiKeys }
\* A body is one JSON-RPC message or a batch of them, each given by its method.
Bodies ==
    { [batch |-> FALSE, methods |-> <<"initialize">>],
      [batch |-> FALSE, methods |-> <<"tools/call">>],
      [batch |-> TRUE, methods |-> <<"tools/call", "initialize">>],
      [batch |-> TRUE, methods |-> <<>>] }
NoBody == [batch |-> FALSE, methods |-> <<>>]
\* POST requests carry a body; the routes read it only when no session is named.
PostRequests ==
    { [cred |-> c, sessionId |-> 0, body |-> b] : c \in Credentials, b \in Bodies }
    \cup { [cred |-> c, sessionId |-> sid, body |-> [batch |-> FALSE, methods |-> <<"tools/call">>]] :
             c \in Credentials, sid \in SessionIds }
\* GET and DELETE requests carry none.
BodilessRequests ==
    { [cred |-> c, sessionId |-> sid, body |-> NoBody] :
        c \in Credentials, sid \in {0} \cup SessionIds }

InitSessionState ==
    /\ sessions = <<>>
    /\ transport = <<>>
    /\ nextTransport = 1
    /\ opening = <<>>
    /\ deleting = <<>>
    /\ responding = {}
    /\ cleanupTimer = TRUE
    /\ listening = TRUE
    /\ connected = FALSE
    /\ exited = FALSE
    /\ createdAt = <<>>
    /\ lastRouted = <<>>
    /\ reclaimed = {}
    /\ spared = {}
    /\ closedIds = {}

\* transport.close() has been invoked once more.
Closed(trs, tid) == [trs EXCEPT ![tid].closeCalls = @ + 1]

\* Faulty variants of the routes and the sweep, which the properties below tell apart.
cleanupInterval_keepsEntry(sess, trs, time) ==
    LET stale == { id \in DOMAIN sess : time - sess[id].lastActivity > SESSION_TIMEOUT_MS }
    IN  [sessions |-> sess,
         transport |-> [tid \in DOMAIN trs |->
                          IF \E id \in stale : sess[id].transport = tid
                          THEN [trs[tid] EXCEPT !.closeCalls = @ + 1]
                          ELSE trs[tid]],
         stale |-> stale]

cleanupInterval_ignoresActivity(sess, trs, time) ==
    [sessions |-> <<>>,
     transport |-> [tid \in DOMAIN trs |->
                      IF \E id \in DOMAIN sess : sess[id].transport = tid
                      THEN [trs[tid] EXCEPT !.closeCalls = @ + 1]
                      ELSE trs[tid]],
     stale |-> DOMAIN sess]

routeExisting_noBump(sess, time, sessionId) ==
    [status |-> "forwarded", sessions |-> sess, forwardTo |-> sess[sessionId].transport]

routeMissing_resurrects(sess, time, sessionId) ==
    [status |-> "404",
     sessions |-> Put(sess, sessionId,
                      [transport |-> sessionId, mcp |-> [apiKey |-> ""],
                       lastActivity |-> time]),
     forwardTo |-> 0]

(***************************************************************************)
(* The reclaim sweep: one run of the setInterval callback.  Deleting from  *)
(* a Map while iterating it visits every remaining entry, so the pass sees *)
(* every session once.  close() is called and not awaited.                 *)
(***************************************************************************)
\* A sweep that already reclaims a session idle for exactly the timeout.
cleanupInterval_atTimeout(sess, trs, time) ==
    LET stale == { id \in DOMAIN sess : time - sess[id].lastActivity >= SESSION_TIMEOUT_MS }
    IN  [sessions |-> [id \in DOMAIN sess \ stale |-> sess[id]],
         transport |-> [tid \in DOMAIN trs |->
                          IF \E id \in stale : sess[id].transport = tid
                          THEN [trs[tid] EXCEPT !.closeCalls = @ + 1]
                          ELSE trs[tid]],
         stale |-> stale]

cleanupInterval(sess, trs, time) ==
    LET stale == { id \in DOMAIN sess : time - sess[id].lastActivity > SESSION_TIMEOUT_MS }
    IN  [sessions |-> [id \in DOMAIN sess \ stale |-> sess[id]],
         transport |-> [tid \in DOMAIN trs |->
                          IF \E id \in stale : sess[id].transport = tid
                          THEN [trs[tid] EXCEPT !.closeCalls = @ + 1]
                          ELSE trs[tid]],
         stale |-> stale]

(***************************************************************************)
(* authMiddleware and resolveApiKey.  With OAuth enabled the SDK's         *)
(* requireBearerAuth rejects a request without a usable Bearer header and   *)
(* one whose token verifyAccessToken throws on, and otherwise sets         *)
(* req.auth.                                                               *)
(***************************************************************************)
\* A middleware that waves every request through once the server has a key.
authMiddleware_skipsWithServerKey(tks, time, cred) ==
    IF ~oauthEnabled \/ SERVER_API_KEY # Undefined
    THEN [pass |-> TRUE, auth |-> Undefined, tokens |-> tks]
    ELSE IF cred.kind # "token"
    THEN [pass |-> FALSE, auth |-> Undefined, tokens |-> tks]
    ELSE LET r == verifyAccessToken(tks, time, cred.token)
         IN  IF r.status = "ok"
             THEN [pass |-> TRUE, auth |-> Some(r.val), tokens |-> r.tokens]
             ELSE [pass |-> FALSE, auth |-> Undefined, tokens |-> r.tokens]

authMiddleware(tks, time, cred) ==
    IF ~oauthEnabled
    THEN [pass |-> TRUE, auth |-> Undefined, tokens |-> tks]
    ELSE IF cred.kind # "token"
    THEN [pass |-> FALSE, auth |-> Undefined, tokens |-> tks]
    ELSE LET r == verifyAccessToken(tks, time, cred.token)
         IN  IF r.status = "ok"
             THEN [pass |-> TRUE, auth |-> Some(r.val), tokens |-> r.tokens]
             ELSE [pass |-> FALSE, auth |-> Undefined, tokens |-> r.tokens]

\* A resolution that prefers the key behind the caller's token to the server's.
resolveApiKey_tokenFirst(tks, time, cred, auth) ==
    LET r == IF oauthEnabled /\ auth # Undefined
             THEN getGeminiApiKey(tks, time, The(auth).token)
             ELSE [val |-> Undefined, tokens |-> tks]
    IN  IF r.val # Undefined
        THEN [key |-> r.val, tokens |-> r.tokens]
        ELSE IF SERVER_API_KEY # Undefined
        THEN [key |-> SERVER_API_KEY, tokens |-> r.tokens]
        ELSE IF ~oauthEnabled /\ cred.kind = "text"
        THEN [key |-> Some(cred.text), tokens |-> r.tokens]
        ELSE [key |-> Undefined, tokens |-> r.tokens]

\* A resolution that prefers the caller's header to the server's own key.
resolveApiKey_headerFirst(tks, time, cred, auth) ==
    IF ~oauthEnabled /\ cred.kind = "text"
    THEN [key |-> Some(cred.text), tokens |-> tks]
    ELSE IF SERVER_API_KEY # Undefined
    THEN [key |-> SERVER_API_KEY, tokens |-> tks]
    ELSE LET r == IF oauthEnabled /\ auth # Undefined
                  THEN getGeminiApiKey(tks, time, The(auth).token)
                  ELSE [val |-> Undefined, tokens |-> tks]
         IN  [key |-> r.val, tokens |-> r.tokens]

resolveApiKey(tks, time, cred, auth) ==
    IF SERVER_API_KEY # Undefined
    THEN [key |-> SERVER_API_KEY, tokens |-> tks]
    ELSE LET r == IF oauthEnabled /\ auth # Undefined
                  THEN getGeminiApiKey(tks, time, The(auth).token)
                  ELSE [val |-> Undefined, tokens |-> tks]
         IN  IF r.val # Undefined
             THEN [key |-> r.val, tokens |-> r.tokens]
             ELSE IF ~oauthEnabled /\ cred.kind = "text"
             THEN [key |-> Some(cred.text), tokens |-> r.tokens]
             ELSE [key |-> Undefined, tokens |-> r.tokens]

\* A test that looks at the first message only.
isInitializeRequest_firstOnly(body) ==
    Len(body.methods) > 0 /\ body.methods[1] = "initialize"

isInitializeRequest(body) ==
    \E i \in 1..Len(body.methods) : body.methods[i] = "initialize"

(***************************************************************************)
(* The routes, as functions of the request: the response status and the    *)
(* session table left behind up to the first await.  "forwarded" is the    *)
(* call of transport.handleRequest on the session's transport.             *)
(***************************************************************************)
routeMissing(sess, time, sessionId) ==
    [status |-> "404", sessions |-> sess, forwardTo |-> 0]

routeExisting(sess, time, sessionId) ==
    [status |-> "forwarded",
     sessions |-> [sess EXCEPT ![sessionId].lastActivity = time],
     forwardTo |-> sess[sessionId].transport]

\* A route that hands the session a new adapter for the caller's key.
postMcp_rebinds(req) ==
    LET mw == authMiddleware(tokens, now, req.cred)
        rk == resolveApiKey(mw.tokens, now, req.cred, mw.auth)
        none == [sessions |-> sessions, forwardTo |-> 0, apiKey |-> Undefined]
    IN  IF ~mw.pass
        THEN [status |-> "bearerAuth", tokens |-> mw.tokens] @@ none
        ELSE IF rk.key = Undefined
        THEN [status |-> "401", tokens |-> rk.tokens] @@ none
        ELSE IF req.sessionId # 0
        THEN [tokens |-> rk.tokens, apiKey |-> Undefined]
             @@ (IF req.sessionId \notin DOMAIN sessions
                 THEN routeMissing(sessions, now, req.sessionId)
                 ELSE [status |-> "forwarded",
                       sessions |-> [sessions EXCEPT
                                        ![req.sessionId].lastActivity = now,
                                        ![req.sessionId].mcp = [apiKey |-> The(rk.key)]],
                       forwardTo |-> sessions[req.sessionId].transport])
        ELSE IF ~isInitializeRequest(req.body)
        THEN [status |-> "400", tokens |-> rk.tokens] @@ none
        ELSE [status |-> "create", tokens |-> rk.tokens, sessions |-> sessions,
              forwardTo |-> 0, apiKey |-> rk.key]

postMcp(req) ==
    LET mw == authMiddleware(tokens, now, req.cred)
        rk == resolveApiKey(mw.tokens, now, req.cred, mw.auth)
        none == [sessions |-> sessions, forwardTo |-> 0, apiKey |-> Undefined]
    IN  IF ~mw.pass
        THEN [status |-> "bearerAuth", tokens |-> mw.tokens] @@ none
        ELSE IF rk.key = Undefined
        THEN [status |-> "401", tokens |-> rk.tokens] @@ none
        ELSE IF req.sessionId # 0
        THEN [tokens |-> rk.tokens, apiKey |-> Undefined]
             @@ (IF req.sessionId \notin DOMAIN sessions
                 THEN routeMissing(sessions, now, req.sessionId)
                 ELSE routeExisting(sessions, now, req.sessionId))
        ELSE IF ~isInitializeRequest(req.body)
        THEN [status |-> "400", tokens |-> rk.tokens] @@ none
        ELSE [status |-> "create", tokens |-> rk.tokens, sessions |-> sessions,
              forwardTo |-> 0, apiKey |-> rk.key]

\* A GET route that forwards without touching the session.
getMcp_noBump(req) ==
    LET mw == authMiddleware(tokens, now, req.cred)
        none == [sessions |-> sessions, forwardTo |-> 0]
    IN  IF ~mw.pass
        THEN [status |-> "bearerAuth", tokens |-> mw.tokens] @@ none
        ELSE IF req.sessionId = 0
        THEN [status |-> "400", tokens |-> mw.tokens] @@ none
        ELSE [tokens |-> mw.tokens]
             @@ (IF req.sessionId \notin DOMAIN sessions
                 THEN routeMissing(sessions, now, req.sessionId)
                 ELSE [status |-> "forwarded", sessions |-> sessions,
                       forwardTo |-> sessions[req.sessionId].transport])

getMcp(req) ==
    LET mw == authMiddleware(tokens, now, req.cred)
        none == [sessions |-> sessions, forwardTo |-> 0]
    IN  IF ~mw.pass
        THEN [status |-> "bearerAuth", tokens |-> mw.tokens] @@ none
        ELSE IF req.sessionId = 0
        THEN [status |-> "400", tokens |-> mw.tokens] @@ none
        ELSE [tokens |-> mw.tokens]
             @@ (IF req.sessionId \notin DOMAIN sessions
                 THEN routeMissing(sessions, now, req.sessionId)
                 ELSE routeExisting(sessions, now, req.sessionId))

deleteMcp(req) ==
    LET mw == authMiddleware(tokens, now, req.cred)
    IN  IF ~mw.pass
        THEN [status |-> "bearerAuth", tokens |-> mw.tokens]
        ELSE IF req.sessionId = 0
        THEN [status |-> "400", tokens |-> mw.tokens]
        ELSE IF req.sessionId \notin DOMAIN sessions
        THEN [status |-> "404", tokens |-> mw.tokens]
        ELSE [status |-> "forwarded", tokens |-> mw.tokens]

(***************************************************************************)
(* POST /mcp.  Up to the first await: the credential checks, then either   *)
(* the routing of a request that names a session, or the construction of   *)
(* an adapter and a transport and the call of connectTransport.            *)
(***************************************************************************)
PostMcp(req) ==
    LET r == postMcp(req)
    IN  /\ ~exited /\ (listening \/ connected)
        /\ tokens' = r.tokens
        /\ sessions' = r.sessions
        /\ lastRouted' = IF r.status = "forwarded"
                         THEN [lastRouted EXCEPT ![req.sessionId] = now]
                         ELSE lastRouted
        /\ spared' = IF r.status = "forwarded" THEN spared \ {req.sessionId} ELSE spared
        /\ IF r.status = "create"
           THEN /\ nextTransport <= MaxSessions
                /\ transport' = Put(transport, nextTransport,
                                    [sessionId |-> 0, closeCalls |-> 0])
                /\ opening' = Put(opening, nextTransport, [apiKey |-> The(r.apiKey)])
                /\ nextTransport' = nextTransport + 1
           ELSE UNCHANGED <<transport, opening, nextTransport>>
        /\ UNCHANGED <<responding, lifeVars, toolVars, cfgVars, now, clients, nextClient, codes, nextCode, nextToken,
                       tokReq, raceVars, histVars, deleting, createdAt, reclaimed,
                       closedIds>>

\* A handler that leaves the registration for after the transport call.
OpenHandle_noRegister(tid, accepted) ==
    /\ ~exited
    /\ tid \in DOMAIN opening
    /\ opening' = Remove(opening, tid)
    /\ responding' = IF accepted THEN responding \cup {tid} ELSE responding
    /\ transport' = IF accepted THEN [transport EXCEPT ![tid].sessionId = tid] ELSE transport
    /\ UNCHANGED <<lifeVars, toolVars, cfgVars, now, authVars, histVars, nextTransport, deleting,
                   sessions, sessHist>>

(***************************************************************************)
(* POST /mcp after connectTransport: transport.handleRequest on the        *)
(* initialize message.  A transport that accepts it draws the session      *)
(* identifier and calls onsessioninitialized; one that rejects it (wrong   *)
(* headers, malformed or repeated initialize) calls nothing.               *)
(***************************************************************************)
OpenHandle(tid, accepted) ==
    /\ ~exited
    /\ tid \in DOMAIN opening
    /\ opening' = Remove(opening, tid)
    /\ responding' = IF accepted THEN responding \cup {tid} ELSE responding
    /\ IF accepted
       THEN /\ transport' = [transport EXCEPT ![tid].sessionId = tid]
            /\ sessions' = Put(sessions, tid,
                               [transport |-> tid, mcp |-> opening[tid],
                                lastActivity |-> now])
            /\ createdAt' = Put(createdAt, tid, now)
            /\ lastRouted' = Put(lastRouted, tid, now)
       ELSE UNCHANGED <<transport, sessions, createdAt, lastRouted>>
    /\ UNCHANGED <<lifeVars, toolVars, cfgVars, now, authVars, histVars, nextTransport, deleting,
                   reclaimed, spared, closedIds>>

GetMcp(req) ==
    LET r == getMcp(req)
    IN  /\ ~exited /\ (listening \/ connected)
        /\ tokens' = r.tokens
        /\ sessions' = r.sessions
        /\ lastRouted' = IF r.status = "forwarded"
                         THEN [lastRouted EXCEPT ![req.sessionId] = now]
                         ELSE lastRouted
        /\ spared' = IF r.status = "forwarded" THEN spared \ {req.sessionId} ELSE spared
        /\ UNCHANGED <<responding, lifeVars, toolVars, cfgVars, now, clients, nextClient, codes, nextCode, nextToken,
                       tokReq, raceVars, histVars, transport, nextTransport,
                       opening, deleting, createdAt, reclaimed, closedIds>>

(***************************************************************************)
(* DELETE /mcp.  The handler awaits transport.handleRequest and then       *)
(* deletes the table entry.  A transport that accepts the request calls    *)
(* onsessionclosed (which deletes the entry), then awaits its own close(); *)
(* one that rejects it (protocol version header) does neither.             *)
(***************************************************************************)
DeleteMcp(req, accepted) ==
    LET r == deleteMcp(req)
    IN  /\ ~exited /\ (listening \/ connected)
        /\ r.status # "forwarded" => accepted  \* no verdict unless the transport is reached
        /\ tokens' = r.tokens
        /\ IF r.status = "forwarded"
           THEN /\ req.sessionId \notin DOMAIN deleting
                /\ IF accepted
                   THEN /\ sessions' = Remove(sessions, req.sessionId)
                        /\ closedIds' = closedIds \cup {req.sessionId}
                        /\ createdAt' = Remove(createdAt, req.sessionId)
                        /\ lastRouted' = Remove(lastRouted, req.sessionId)
                        /\ spared' = spared \ {req.sessionId}
                        /\ deleting' = Put(deleting, req.sessionId,
                                           [pc |-> "close",
                                            transport |-> sessions[req.sessionId].transport])
                   ELSE /\ deleting' = Put(deleting, req.sessionId,
                                           [pc |-> "finish",
                                            transport |-> sessions[req.sessionId].transport])
                        /\ UNCHANGED <<sessions, closedIds, createdAt, lastRouted, spared>>
           ELSE UNCHANGED <<sessions, closedIds, deleting, createdAt, lastRouted, spared>>
        /\ UNCHANGED <<responding, lifeVars, toolVars, cfgVars, now, clients, nextClient, codes, nextCode, nextToken,
                       tokReq, raceVars, histVars, transport, nextTransport,
                       opening, reclaimed>>

\* The accepting transport's close().
DeleteClose(sessionId) ==
    /\ ~exited
    /\ sessionId \in DOMAIN deleting
    /\ deleting[sessionId].pc = "close"
    /\ transport' = Closed(transport, deleting[sessionId].transport)
    /\ deleting' = [deleting EXCEPT ![sessionId].pc = "finish"]
    /\ UNCHANGED <<responding, lifeVars, toolVars, cfgVars, now, authVars, histVars, sessions, nextTransport,
                   opening, sessHist>>

\* A handler that closes the transport itself once the transport call returns.
DeleteFinish_closesAgain(sessionId) ==
    /\ ~exited
    /\ sessionId \in DOMAIN deleting
    /\ deleting[sessionId].pc = "finish"
    /\ sessions' = Remove(sessions, sessionId)
    /\ transport' = Closed(transport, deleting[sessionId].transport)
    /\ closedIds' = IF sessionId \in DOMAIN sessions
                    THEN closedIds \cup {sessionId} ELSE closedIds
    /\ createdAt' = Remove(createdAt, sessionId)
    /\ lastRouted' = Remove(lastRouted, sessionId)
    /\ spared' = spared \ {sessionId}
    /\ deleting' = Remove(deleting, sessionId)
    /\ UNCHANGED <<responding, lifeVars, toolVars, cfgVars, now, authVars, histVars, nextTransport, opening, reclaimed>>

\* The handler resumes: sessions.delete(sessionId).
DeleteFinish(sessionId) ==
    /\ ~exited
    /\ sessionId \in DOMAIN deleting
    /\ deleting[sessionId].pc = "finish"
    /\ sessions' = Remove(sessions, sessionId)
    /\ closedIds' = IF sessionId \in DOMAIN sessions
                    THEN closedIds \cup {sessionId} ELSE closedIds
    /\ createdAt' = Remove(createdAt, sessionId)
    /\ lastRouted' = Remove(lastRouted, sessionId)
    /\ spared' = spared \ {sessionId}
    /\ deleting' = Remove(deleting, sessionId)
    /\ UNCHANGED <<responding, lifeVars, toolVars, cfgVars, now, authVars, histVars, transport, nextTransport,
                   opening, reclaimed>>

(***************************************************************************)
(* One run of the timer callback, with what becomes of the promises the    *)
(* close calls return: they resolve, they stay pending, or they reject.    *)
(* The callback drops them.  A promise that rejects with no handler raises *)
(* unhandledRejection as soon as the callback has returned, which under    *)
(* Node 20 (Dockerfile) ends the process: remote.ts installs no handler.   *)
(***************************************************************************)
CloseOutcomes == {"resolves", "pending", "rejects"}

SweepWith(outcome) ==
    LET r == cleanupInterval(sessions, transport, now)
    IN  /\ ~exited /\ cleanupTimer
        /\ sessions' = r.sessions
        /\ transport' = r.transport
        /\ reclaimed' = reclaimed \cup r.stale
        /\ createdAt' = [id \in DOMAIN r.sessions |-> createdAt[id]]
        /\ lastRouted' = [id \in DOMAIN r.sessions |-> lastRouted[id]]
        /\ spared' = DOMAIN r.sessions
        /\ exited' = (outcome = "rejects" /\ r.stale # {})
        /\ UNCHANGED <<responding, cleanupTimer, listening, connected, toolVars, cfgVars,
                       now, authVars, histVars, nextTransport, opening, deleting,
                       closedIds>>

\* The sweep of a server whose transports close without error.
Sweep == SweepWith("resolves")

(***************************************************************************)
(* server.ts, chat-session.ts and the tools: one adapter with its key      *)
(* configured, serving tool calls one after the other.  The upstream API   *)
(* answers a call with an image, with no image, or the call throws.        *)
(*                                                                         *)
(* A chat is given by the configuration it was created with.  The          *)
(* ChatSessionManager, which routeToolCall creates on the first call that  *)
(* needs it, starts with neither chat nor configuration.                    *)
(***************************************************************************)
ToolNames == {"generate_image", "edit_image", "continue_editing", "get_last_image_info"}
Responses == {"image", "none", "throws"}
ChatConfigs == [model : {"flash", "pro"}, useGoogleSearch : {Undefined, Some(TRUE)}]
DefaultConfig == [model |-> "flash", useGoogleSearch |-> Undefined]
NoChat == [chat |-> Undefined, currentConfig |-> Undefined]

InitToolState ==
    /\ chatSession = NoChat
    /\ lastImagePath = 0
    /\ nextImage = 1
    /\ calls = <<>>

\* ChatSessionManager
reset(cs) == NoChat

hasActiveSession(cs) == cs.chat # Undefined

getOrCreateChat(cs, config) ==
    LET configChanged ==
            \/ cs.currentConfig = Undefined
            \/ The(cs.currentConfig).model # config.model
            \/ The(cs.currentConfig).useGoogleSearch # config.useGoogleSearch
    IN  IF configChanged \/ cs.chat = Undefined
        THEN [chat |-> Some(config), currentConfig |-> Some(config)]
        ELSE cs

sendMessage(cs, config) ==
    getOrCreateChat(cs, IF config # Undefined THEN The(config)
                        ELSE IF cs.currentConfig # Undefined THEN The(cs.currentConfig)
                        ELSE DefaultConfig)

\* What saveImageFromBase64 returns for a response: the new file, or null.
SavedPath(response) == IF response = "image" THEN nextImage ELSE 0

(***************************************************************************)
(* The handlers: the chat session they leave, the path of the image they   *)
(* saved (0: none), whether they threw, and the upstream call they made:   *)
(* models.generateContent or the chat's sendMessage.                       *)
(***************************************************************************)
\* The error a handler throws: McpError(InvalidRequest), whatever the
\* upstream call throws, or none.
Thrown(response) == IF response = "throws" THEN "upstream" ELSE "none"

handleGenerateImage(cs, response) ==
    [chatSession |-> reset(cs),
     savedPath |-> SavedPath(response),
     thrown |-> response = "throws",
     error |-> Thrown(response),
     via |-> "generateContent"]

handleEditImage(cs, response) ==
    [chatSession |-> cs,
     savedPath |-> SavedPath(response),
     thrown |-> response = "throws",
     error |-> Thrown(response),
     via |-> "generateContent"]

handleContinueEditing(cs, lastImage, response) ==
    IF lastImage = 0
    THEN [chatSession |-> cs, savedPath |-> 0, thrown |-> TRUE,
          error |-> "InvalidRequest", via |-> "none"]
    ELSE IF ~hasActiveSession(cs)
    THEN [chatSession |-> cs,
          savedPath |-> SavedPath(response),
          thrown |-> response = "throws",
          error |-> Thrown(response),
          via |-> "generateContent"]
    ELSE [chatSession |-> sendMessage(cs, Undefined),
          savedPath |-> SavedPath(response),
          thrown |-> response = "throws",
          error |-> Thrown(response),
          via |-> "sendMessage"]

handleGetLastImageInfo(cs, lastImage) ==
    [chatSession |-> cs, savedPath |-> 0, thrown |-> FALSE, error |-> "none",
     via |-> "none"]

\* An adapter that takes whatever path the handler returns, null included.
routeToolCall_takesNull(name, response) ==
    LET r == CASE name = "generate_image" -> handleGenerateImage(chatSession, response)
               [] name = "edit_image" -> handleEditImage(chatSession, response)
               [] name = "continue_editing" ->
                      handleContinueEditing(chatSession, lastImagePath, response)
               [] name = "get_last_image_info" ->
                      handleGetLastImageInfo(chatSession, lastImagePath)
        kept == ~r.thrown /\ r.savedPath # 0
    IN  [result |-> r,
         lastImagePath |-> IF r.thrown \/ name = "get_last_image_info"
                           THEN lastImagePath ELSE r.savedPath,
         chatSession |-> IF name = "edit_image" /\ kept THEN reset(r.chatSession)
                         ELSE r.chatSession]

\* routeToolCall: the handler's result and what the adapter keeps of it.
routeToolCall(name, response) ==
    LET r == CASE name = "generate_image" -> handleGenerateImage(chatSession, response)
               [] name = "edit_image" -> handleEditImage(chatSession, response)
               [] name = "continue_editing" ->
                      handleContinueEditing(chatSession, lastImagePath, response)
               [] name = "get_last_image_info" ->
                      handleGetLastImageInfo(chatSession, lastImagePath)
        kept == ~r.thrown /\ r.savedPath # 0
    IN  [result |-> r,
         lastImagePath |-> IF kept THEN r.savedPath ELSE lastImagePath,
         chatSession |-> IF name = "edit_image" /\ kept THEN reset(r.chatSession)
                         ELSE r.chatSession]

RouteToolCall(name, response) ==
    LET r == routeToolCall(name, response)
    IN  /\ Len(calls) < MaxCalls
        /\ chatSession' = r.chatSession
        /\ lastImagePath' = r.lastImagePath
        /\ nextImage' = IF r.result.savedPath # 0 THEN nextImage + 1 ELSE nextImage
        /\ calls' = Append(calls, [name |-> name, via |-> r.result.via,
                                   thrown |-> r.result.thrown,
                                   savedPath |-> r.result.savedPath])
        /\ UNCHANGED <<cfgVars, now, authVars, histVars, sessVars, sessHist, lifeVars>>

NextTools ==
    \E name \in ToolNames, response \in Responses : RouteToolCall(name, response)

(***************************************************************************)
(* The authorization engine on its own: a deployment with PUBLIC_URL set   *)
(* and no server-side key.                                                 *)
(***************************************************************************)
Init ==
    /\ SERVER_API_KEY = Undefined
    /\ oauthEnabled = TRUE
    /\ InitAuthState
    /\ InitSessionState
    /\ InitToolState

Next ==
    \/ Tick
    \/ \E client \in ClientMetadata : RegisterClient(client)
    \/ \E body \in FormBodies : SubmitAuthorization(body)
    \/ \E c \in CodeIds : ChallengeForAuthorizationCode(c)
    \/ \E c \in CodeIds : ExchangeAuthorizationCode(c)
    \/ ExchangeRefreshToken
    \/ \E t \in TokenIds : VerifyAccessToken(t)
    \/ \E t \in TokenIds : GetGeminiApiKey(t)

Spec == Init /\ [][Next]_vars

SpecTools == Init /\ [][NextTools]_vars

(***************************************************************************)
(* Concurrent token requests against the same engine.                      *)
(***************************************************************************)
NextRace ==
    \/ \E client \in ClientMetadata : RegisterClient(client)
    \/ \E body \in FormBodies : SubmitAuthorization(body)
    \/ \E r \in 1..MaxTokReqs, c \in CodeIds : TokenChallenge(r, c)
    \/ \E r \in 1..MaxTokReqs : TokenExchange(r)

SpecRace == Init /\ [][NextRace]_vars

\* The session-open response leaves the server: the initialize result, with
\* the new session identifier in its mcp-session-id header.
OpenRespond(tid) ==
    /\ ~exited
    /\ tid \in responding
    /\ responding' = responding \ {tid}
    /\ UNCHANGED <<toolVars, cfgVars, now, authVars, histVars, sessions, transport, nextTransport,
                   opening, deleting, sessHist, lifeVars>>

(***************************************************************************)
(* shutdown(), the SIGINT/SIGTERM handler: what it leaves behind and the   *)
(* calls it makes, in order.  The Map is iterated in insertion order,      *)
(* which is the order of the session identifiers here.  process.exit is    *)
(* only handed to server.close as its callback.                            *)
(***************************************************************************)
RECURSIVE InsertionOrder(_)
InsertionOrder(ids) ==
    IF ids = {} THEN <<>>
    ELSE LET first == CHOOSE id \in ids : \A other \in ids : id <= other
         IN  <<first>> \o InsertionOrder(ids \ {first})

RECURSIVE CloseAndDelete(_)
CloseAndDelete(order) ==
    IF order = <<>> THEN <<>>
    ELSE <<[call |-> "transport.close", id |-> Head(order)],
           [call |-> "sessions.delete", id |-> Head(order)]>>
         \o CloseAndDelete(Tail(order))

\* Faulty variants of shutdown, which the properties below tell apart.
shutdown_closesServerFirst(sess, trs) ==
    [cleanupTimer |-> FALSE,
     sessions |-> <<>>,
     transport |-> [tid \in DOMAIN trs |->
                      IF \E id \in DOMAIN sess : sess[id].transport = tid
                      THEN [trs[tid] EXCEPT !.closeCalls = @ + 1]
                      ELSE trs[tid]],
     listening |-> FALSE,
     calls |-> <<[call |-> "server.close", id |-> 0],
                 [call |-> "clearInterval", id |-> 0]>>
               \o CloseAndDelete(InsertionOrder(DOMAIN sess))]

\* A shutdown that also closes the transports of sessions whose DELETE is
\* still being handled.
shutdown_closesDeleting(sess, trs) ==
    [cleanupTimer |-> FALSE,
     sessions |-> <<>>,
     transport |-> [tid \in DOMAIN trs |->
                      IF \/ \E id \in DOMAIN sess : sess[id].transport = tid
                         \/ \E id \in DOMAIN deleting : deleting[id].transport = tid
                      THEN [trs[tid] EXCEPT !.closeCalls = @ + 1]
                      ELSE trs[tid]],
     listening |-> FALSE,
     calls |-> <<[call |-> "clearInterval", id |-> 0]>>
               \o CloseAndDelete(InsertionOrder(DOMAIN sess))
               \o <<[call |-> "server.close", id |-> 0]>>]

shutdown(sess, trs) ==
    [cleanupTimer |-> FALSE,
     sessions |-> <<>>,
     transport |-> [tid \in DOMAIN trs |->
                      IF \E id \in DOMAIN sess : sess[id].transport = tid
                      THEN [trs[tid] EXCEPT !.closeCalls = @ + 1]
                      ELSE trs[tid]],
     listening |-> FALSE,
     calls |-> <<[call |-> "clearInterval", id |-> 0]>>
               \o CloseAndDelete(InsertionOrder(DOMAIN sess))
               \o <<[call |-> "server.close", id |-> 0]>>]

\* A termination signal arrives.
Shutdown ==
    LET r == shutdown(sessions, transport)
    IN  /\ ~exited
        /\ cleanupTimer' = r.cleanupTimer
        /\ sessions' = r.sessions
        /\ transport' = r.transport
        /\ listening' = r.listening
        /\ createdAt' = <<>>
        /\ lastRouted' = <<>>
        /\ spared' = {}
        /\ UNCHANGED <<toolVars, cfgVars, now, authVars, histVars, nextTransport, opening, deleting,
                       responding, reclaimed, closedIds, connected, exited>>

\* The callback of server.close: the server has stopped listening and its
\* last connection has ended.
Exit ==
    /\ ~exited
    /\ ~listening
    /\ ~connected
    /\ exited' = TRUE
    /\ UNCHANGED <<toolVars, cfgVars, now, authVars, histVars, sessVars, sessHist, cleanupTimer,
                   listening, connected>>

\* A client opens a connection and keeps it; a client closes its connection.
ClientConnect ==
    /\ ~exited
    /\ listening
    /\ ~connected
    /\ connected' = TRUE
    /\ UNCHANGED <<toolVars, cfgVars, now, authVars, histVars, sessVars, sessHist, cleanupTimer,
                   listening, exited>>

ClientDisconnect ==
    /\ ~exited
    /\ connected
    /\ connected' = FALSE
    /\ UNCHANGED <<toolVars, cfgVars, now, authVars, histVars, sessVars, sessHist, cleanupTimer,
                   listening, exited>>

(***************************************************************************)
(* The session layer without OAuth: PUBLIC_URL unset, GEMINI_API_KEY set   *)
(* or not.  Callers then send no header, a blank one or a key.             *)
(***************************************************************************)
ServerKeys == {"srv-key"}
\* Without OAuth an access token is one more text after "Bearer ".
Sendable(reqs) == IF oauthEnabled THEN reqs ELSE { req \in reqs : req.cred.kind # "token" }

InitRemote ==
    /\ SERVER_API_KEY \in {Undefined} \cup { Some(k) : k \in ServerKeys }
    /\ oauthEnabled = FALSE
    /\ InitAuthState
    /\ InitSessionState
    /\ InitToolState

NextRemote ==
    \/ Tick
    \/ \E req \in Sendable(PostRequests) : PostMcp(req)
    \/ \E tid \in 1..MaxSessions, accepted \in BOOLEAN : OpenHandle(tid, accepted)
    \/ \E req \in Sendable(BodilessRequests) : GetMcp(req)
    \/ \E req \in Sendable(BodilessRequests), accepted \in BOOLEAN : DeleteMcp(req, accepted)
    \/ \E sid \in 1..MaxSessions : DeleteClose(sid)
    \/ \E sid \in 1..MaxSessions : DeleteFinish(sid)
    \/ Sweep

SpecRemote == InitRemote /\ [][NextRemote]_vars

(***************************************************************************)
(* Session opening with the delivery of its response as a step of its own, *)
(* next to the requests that may follow it and the sweep.                  *)
(***************************************************************************)
NextOpen ==
    \/ Tick
    \/ \E req \in Sendable(PostRequests) : PostMcp(req)
    \/ \E tid \in 1..MaxSessions, accepted \in BOOLEAN : OpenHandle(tid, accepted)
    \/ \E tid \in 1..MaxSessions : OpenRespond(tid)
    \/ \E req \in Sendable(BodilessRequests) : GetMcp(req)
    \/ Sweep

SpecOpen == InitRemote /\ [][NextOpen]_vars

(***************************************************************************)
(* The same server with its termination signals and its clients'           *)
(* connections.  Only the steps of the server are fair: the event loop     *)
(* runs every callback that is due, while clients connect, send and        *)
(* disconnect as they please and signals arrive or not.                    *)
(***************************************************************************)
NextShutdown ==
    \/ Tick
    \/ ClientConnect
    \/ ClientDisconnect
    \/ \E req \in Sendable(PostRequests) : PostMcp(req)
    \/ \E tid \in 1..MaxSessions, accepted \in BOOLEAN : OpenHandle(tid, accepted)
    \/ Sweep
    \/ Shutdown
    \/ Exit

SpecShutdown == InitRemote /\ [][NextShutdown]_vars

SpecShutdownFair ==
    /\ SpecShutdown
    /\ WF_vars(Exit)
    /\ WF_vars(\E tid \in 1..MaxSessions, accepted \in BOOLEAN : OpenHandle(tid, accepted))

(***************************************************************************)
(* Every deployment mode: GEMINI_API_KEY set or not, PUBLIC_URL set or     *)
(* not.  With PUBLIC_URL the authorization endpoints issue tokens, and     *)
(* callers of POST /mcp present them, or anything else, with requests that *)
(* name a session.                                                         *)
(***************************************************************************)
InitModes ==
    /\ SERVER_API_KEY \in {Undefined} \cup { Some(k) : k \in ServerKeys }
    /\ oauthEnabled \in BOOLEAN
    /\ InitAuthState
    /\ InitSessionState
    /\ InitToolState

NextModes ==
    \/ Tick
    \/ \E client \in ClientMetadata : RegisterClient(client)
    \/ \E body \in FormBodies : SubmitAuthorization(body)
    \/ \E c \in CodeIds : ExchangeAuthorizationCode(c)
    \/ \E req \in { q \in Sendable(PostRequests) : q.sessionId = 1 } : PostMcp(req)

SpecModes == InitModes /\ [][NextModes]_vars

(***************************************************************************)
(* Sessions of a multi-tenant deployment: PUBLIC_URL set and no            *)
(* server-side key, so that every session is opened with the key behind    *)
(* the caller's token.  Callers present tokens, to open a session or to    *)
(* reach session 1, while tokens are issued and expire.                    *)
(***************************************************************************)
TenantRequests ==
    { req \in PostRequests :
        /\ req.cred.kind = "token"
        /\ \/ req.sessionId = 1
           \/ req.sessionId = 0 /\ req.body = [batch |-> FALSE, methods |-> <<"initialize">>] }

\* The forms two tenants of one registered client submit, each with its own key.
TenantBodies == { WithClient(p, 1) : p \in FormProfiles }

\* The instants just past each full token lifetime.
Lifetimes == { t \in Instants : t % (TOKEN_TTL_SECONDS * MsPerSecond) = 1 }

NextTenant ==
    \/ \E t \in Lifetimes : TickTo(t)
    \/ \E client \in ClientMetadata : RegisterClient(client)
    \/ \E body \in TenantBodies : SubmitAuthorization(body)
    \/ \E c \in CodeIds : ExchangeAuthorizationCode(c)
    \/ \E req \in TenantRequests : PostMcp(req)
    \/ \E tid \in 1..MaxSessions, accepted \in BOOLEAN : OpenHandle(tid, accepted)

SpecTenant == Init /\ [][NextTenant]_vars

(***************************************************************************)
(* Sessions of a deployment with PUBLIC_URL set, with or without a         *)
(* server-side key.  Callers open sessions and reach session 1 with        *)
(* tokens, issued or not, live or expired, or with no header at all.       *)
(***************************************************************************)
InitAuthorized ==
    /\ SERVER_API_KEY \in {Undefined} \cup { Some(k) : k \in ServerKeys }
    /\ oauthEnabled = TRUE
    /\ InitAuthState
    /\ InitSessionState
    /\ InitToolState

AuthorizedRequests ==
    TenantRequests
    \cup { req \in PostRequests :
             /\ req.cred = NoHeader
             /\ req.sessionId = 0
             /\ req.body = [batch |-> FALSE, methods |-> <<"initialize">>] }

NextAuthorized ==
    \/ \E t \in Lifetimes : TickTo(t)
    \/ \E client \in ClientMetadata : RegisterClient(client)
    \/ \E body \in TenantBodies : SubmitAuthorization(body)
    \/ \E c \in CodeIds : ExchangeAuthorizationCode(c)
    \/ \E req \in AuthorizedRequests : PostMcp(req)
    \/ \E tid \in 1..MaxSessions, accepted \in BOOLEAN : OpenHandle(tid, accepted)

SpecAuthorized == InitAuthorized /\ [][NextAuthorized]_vars

(***************************************************************************)
(* The whole life of codes and sessions in a multi-tenant deployment:      *)
(* codes are issued and exchanged, sessions are opened with the tokens,    *)
(* and closed by their clients, reclaimed by the sweep or closed by        *)
(* shutdown.                                                               *)
(***************************************************************************)
\* One tenant's form.
LifecycleBodies == { WithClient(p, 1) : p \in { q \in FormProfiles : q.state = "" } }

LifecycleDeletes ==
    { req \in BodilessRequests : req.cred.kind = "token" /\ req.sessionId = 1 }

NextLifecycle ==
    \/ \E t \in Lifetimes : TickTo(t)
    \/ \E client \in ClientMetadata : RegisterClient(client)
    \/ \E body \in LifecycleBodies : SubmitAuthorization(body)
    \/ \E c \in CodeIds : ExchangeAuthorizationCode(c)
    \/ \E req \in TenantRequests : PostMcp(req)
    \/ \E tid \in 1..MaxSessions, accepted \in BOOLEAN : OpenHandle(tid, accepted)
    \/ \E req \in LifecycleDeletes, accepted \in BOOLEAN : DeleteMcp(req, accepted)
    \/ \E sid \in 1..MaxSessions : DeleteClose(sid)
    \/ \E sid \in 1..MaxSessions : DeleteFinish(sid)
    \/ Sweep
    \/ Shutdown

SpecLifecycle == Init /\ [][NextLifecycle]_vars

(***************************************************************************)
(* The three ways a session ends, side by side: DELETE /mcp, the sweep and *)
(* shutdown, with clients that keep their connections across the signal.   *)
(* Callers send no header or a key.                                        *)
(***************************************************************************)
DestroyCredentials == {NoHeader, [kind |-> "text", token |-> 0, text |-> "AIzaK1"]}

DestroyPosts ==
    { req \in PostRequests :
        /\ req.cred \in DestroyCredentials
        /\ req.sessionId = 0 => req.body = [batch |-> FALSE, methods |-> <<"initialize">>] }

DestroyDeletes ==
    { req \in BodilessRequests : req.cred = NoHeader /\ req.sessionId # 0 }

NextDestroy ==
    \/ Tick
    \/ ClientConnect
    \/ ClientDisconnect
    \/ \E req \in DestroyPosts : PostMcp(req)
    \/ \E tid \in 1..MaxSessions, accepted \in BOOLEAN : OpenHandle(tid, accepted)
    \/ \E req \in DestroyDeletes, accepted \in BOOLEAN : DeleteMcp(req, accepted)
    \/ \E sid \in 1..MaxSessions : DeleteClose(sid)
    \/ \E sid \in 1..MaxSessions : DeleteFinish(sid)
    \/ Sweep
    \/ Shutdown
    \/ Exit

SpecDestroy == InitRemote /\ [][NextDestroy]_vars

(***************************************************************************)
(* The sweep with transports whose close may hang or fail, next to the     *)
(* requests that open sessions and keep them alive.                        *)
(***************************************************************************)
NextSweep ==
    \/ Tick
    \/ \E req \in Sendable(PostRequests) : PostMcp(req)
    \/ \E tid \in 1..MaxSessions, accepted \in BOOLEAN : OpenHandle(tid, accepted)
    \/ \E outcome \in CloseOutcomes : SweepWith(outcome)

SpecSweep == InitRemote /\ [][NextSweep]_vars

(***************************************************************************)
(* What the histories say about a token: the form body its grant was       *)
(* issued for, and the scope list that body asks for.                      *)
(***************************************************************************)
BodyOf(token) == issued[grantOf[token].code]
RequestedScopes(field) ==
    CASE field = <<>> -> <<>>
      [] field = <<"r">> -> << <<"r">> >>
      [] field = <<"r", " ", "w">> -> << <<"r">>, <<"w">> >>
Expired(tks, time, token) == time > tks[token].expiresAt * MsPerSecond

(***************************************************************************)
(* C1.  A code is exchanged at most once.  Of all the exchange calls made   *)
(* on a code at most one has returned a token; an exchange of a code that  *)
(* was issued and not yet exchanged returns a token, and an exchange of a   *)
(* code that has been exchanged throws "Unknown authorization code", at    *)
(* whatever instant the call is made.                                      *)
(***************************************************************************)
C1_ExchangeAtMostOnce ==
    \A c \in CodeIds :
        /\ okCount[c] <= 1
        /\ \A time \in Instants :
              LET r == exchangeAuthorizationCode(codes, tokens, time, c)
              IN  /\ (c \in DOMAIN issued /\ okCount[c] = 0) => r.status = "ok"
                  /\ okCount[c] >= 1 =>
                        /\ r.status = "error"
                        /\ r.val = "Unknown authorization code"
                        /\ r.codes = codes
                        /\ r.tokens = tokens

C1_Witness ==
    \E t \in DOMAIN grantOf :
        /\ okCount[grantOf[t].code] = 1
        /\ grantOf[t].code \notin DOMAIN codes
        /\ now \div MsPerSecond + TOKEN_TTL_SECONDS > grantOf[t].expiresAt

(***************************************************************************)
(* C2.  Token requests racing for one code: whenever every request that    *)
(* got past the challenge for a code has finished, exactly one of them has  *)
(* a token and all the others failed; and a grant that is still pending    *)
(* has given nobody a token (the delete is not deferred past the lookup).  *)
(***************************************************************************)
Challenged(c) == { r \in 1..MaxTokReqs : tokReq[r].pc = "challenged" /\ tokReq[r].code = c }

C2_ExactlyOneWins ==
    \A c \in CodeIds :
        /\ okCount[c] <= 1
        /\ c \in DOMAIN codes => okCount[c] = 0
        /\ okCount[c] + failed[c] + Cardinality(Challenged(c)) = passed[c]
        /\ (passed[c] >= 1 /\ Challenged(c) = {}) =>
              (okCount[c] = 1 /\ failed[c] = passed[c] - 1)

C2_Witness ==
    \E c \in CodeIds :
        passed[c] >= 2 /\ Challenged(c) = {} /\ okCount[c] = 1 /\ failed[c] >= 1

(***************************************************************************)
(* C3.  verifyAccessToken on a stored token that has not expired returns   *)
(* the identifier of the client the code was issued to, the scopes the     *)
(* submitted form asked for (none: the empty list) and the stored expiry,  *)
(* and leaves the token map alone.                                         *)
(***************************************************************************)
C3_VerifyReturnsGrant ==
    \A t \in DOMAIN tokens :
        ~Expired(tokens, now, t) =>
            LET r == verifyAccessToken(tokens, now, t)
            IN  /\ r.status = "ok"
                /\ r.val.token = t
                /\ r.val.clientId = BodyOf(t).client_id
                /\ r.val.clientId \in DOMAIN clients
                /\ r.val.scopes = RequestedScopes(BodyOf(t).scopes)
                /\ r.val.expiresAt = tokens[t].expiresAt
                /\ r.tokens = tokens

C3_Witness ==
    \E t, u \in DOMAIN tokens :
        /\ ~Expired(tokens, now, t) /\ ~Expired(tokens, now, u)
        /\ BodyOf(t).scopes = <<>>
        /\ BodyOf(u).scopes = <<"r", " ", "w">>
        /\ now > 0

(***************************************************************************)
(* C4.  As claimed: on a token that is past its expiry and on which        *)
(* verifyAccessToken has not been called since, verifyAccessToken throws   *)
(* "Access token expired".                                                  *)
(***************************************************************************)
PastExpiry(t) == now > grantOf[t].expiresAt * MsPerSecond

C4_FirstLateVerifyExpired ==
    \A t \in DOMAIN grantOf :
        (PastExpiry(t) /\ t \notin verifiedLate) =>
            verifyAccessToken(tokens, now, t).val = "Access token expired"

(***************************************************************************)
(* C4, amended.  On a token past its expiry verifyAccessToken always       *)
(* throws.  While the record is still stored the error is "Access token    *)
(* expired" and the call removes the record; once the record is gone,      *)
(* removed by that call or earlier by getGeminiApiKey, the error is        *)
(* "Invalid access token".  After any verifyAccessToken call made past the *)
(* expiry the record is gone.                                              *)
(***************************************************************************)
C4_LateVerifyEvicts ==
    \A t \in DOMAIN grantOf :
        PastExpiry(t) =>
            LET r == verifyAccessToken(tokens, now, t)
            IN  /\ r.status = "error"
                /\ t \in verifiedLate => t \notin DOMAIN tokens
                /\ t \in DOMAIN tokens =>
                      /\ r.val = "Access token expired"
                      /\ r.tokens = Remove(tokens, t)
                      /\ verifyAccessToken(r.tokens, now, t).val = "Invalid access token"
                /\ t \notin DOMAIN tokens =>
                      /\ r.val = "Invalid access token"
                      /\ r.tokens = tokens

C4_Witness ==
    \E t, u \in DOMAIN grantOf :
        /\ t \in verifiedLate /\ t \notin DOMAIN tokens
        /\ u \notin verifiedLate /\ u \notin DOMAIN tokens

(***************************************************************************)
(* C5.  getGeminiApiKey on a token returns the secret of the form body the *)
(* token's own code was issued for, unchanged, until the token expires,    *)
(* and never anything else; a record is missing only after the expiry.     *)
(***************************************************************************)
C5_SecretRoundTrip ==
    \A t \in DOMAIN grantOf :
        LET r == getGeminiApiKey(tokens, now, t)
        IN  /\ ~PastExpiry(t) => r.val = Some(BodyOf(t).gemini_api_key)
            /\ r.val \subseteq {BodyOf(t).gemini_api_key}
            /\ ~PastExpiry(t) => r.tokens = tokens

C5_Witness ==
    \E t, u \in DOMAIN tokens :
        /\ ~PastExpiry(t) /\ ~PastExpiry(u)
        /\ BodyOf(t).gemini_api_key = "k&<\"2"
        /\ BodyOf(u).gemini_api_key = "AIzaK1"

(***************************************************************************)
(* C6.  verifyAccessToken does not depend on the secret: with the secret   *)
(* stored for a token replaced by any other, the call returns or throws    *)
(* the same, at every instant; what it returns has no field for the        *)
(* secret.                                                                 *)
(***************************************************************************)
WithSecret(tks, t, k) == [tks EXCEPT ![t].geminiApiKey = k]

C6_VerifyHidesSecret ==
    \A t \in DOMAIN tokens, k \in ApiKeys, time \in Instants :
        LET r == verifyAccessToken(tokens, time, t)
            q == verifyAccessToken(WithSecret(tokens, t, k), time, t)
        IN  /\ q.status = r.status
            /\ q.val = r.val
            /\ r.status = "ok" => DOMAIN r.val = {"token", "clientId", "scopes", "expiresAt"}

C6_Witness ==
    \E t \in DOMAIN tokens :
        /\ ~Expired(tokens, now, t)
        /\ \E k \in ApiKeys : k # tokens[t].geminiApiKey

(***************************************************************************)
(* What a request brings to the credential checks that precede routing.    *)
(***************************************************************************)
LiveToken(cred) ==
    /\ cred.kind = "token"
    /\ cred.token \in DOMAIN tokens
    /\ ~Expired(tokens, now, cred.token)
\* requireBearerAuth lets the request through.
BearerOk(req) == oauthEnabled => LiveToken(req.cred)
\* resolveApiKey finds a key for it.
KeyAvailable(req) ==
    \/ SERVER_API_KEY # Undefined
    \/ IF oauthEnabled THEN LiveToken(req.cred) ELSE req.cred.kind = "text"
Idle(sid) == now - sessions[sid].lastActivity > SESSION_TIMEOUT_MS
TransportsOf(sid) == { tid \in DOMAIN transport : transport[tid].sessionId = sid }
PostTo(sid) == { req \in Sendable(PostRequests) : req.sessionId = sid }
GetTo(sid) == { req \in Sendable(BodilessRequests) : req.sessionId = sid }

\* C7: a reclaim sweep that runs when a session's (now - lastActivity)
\* exceeds the idle timeout removes the session from the table and invokes
\* close on its transport, which by then has been closed exactly once; a
\* session a sweep has reclaimed stays absent and its transport's close count
\* stays at one.
C7_SweepReclaimsIdle ==
    /\ \A sid \in DOMAIN sessions :
         Idle(sid) =>
           LET r == cleanupInterval(sessions, transport, now)
           IN  /\ sid \notin DOMAIN r.sessions
               /\ r.transport[sessions[sid].transport].closeCalls = 1
    /\ \A sid \in reclaimed :
         /\ sid \notin DOMAIN sessions
         /\ TransportsOf(sid) # {}
         /\ \A tid \in TransportsOf(sid) : transport[tid].closeCalls = 1

C7_Witness ==
    \E sid \in reclaimed :
        /\ sid \notin DOMAIN sessions
        /\ \E tid \in TransportsOf(sid) : transport[tid].closeCalls = 1

\* C8: a routed request sets the session's idle clock to the time of the
\* request, and a reclaim sweep that runs less than the idle timeout after
\* the most recent routed request leaves the session's entry as it is and
\* its transport never closed, however long ago the session was created.
C8_ActivityResetsIdleClock ==
    \A sid \in DOMAIN sessions :
        /\ sessions[sid].lastActivity = lastRouted[sid]
        /\ transport[sessions[sid].transport].closeCalls = 0
        /\ now - lastRouted[sid] < SESSION_TIMEOUT_MS =>
             LET r == cleanupInterval(sessions, transport, now)
             IN  /\ sid \in DOMAIN r.sessions
                 /\ r.sessions[sid] = sessions[sid]
                 /\ r.transport[sessions[sid].transport].closeCalls = 0

\* A session created more than the idle timeout ago, routed to since, and
\* kept by a sweep that ran after that request.
C8_Witness ==
    \E sid \in spared :
        /\ sid \in DOMAIN sessions
        /\ now - createdAt[sid] > SESSION_TIMEOUT_MS
        /\ lastRouted[sid] > createdAt[sid]
        /\ now - lastRouted[sid] < SESSION_TIMEOUT_MS
        /\ transport[sessions[sid].transport].closeCalls = 0

\* C9 as stated: every request that names a session absent from the table
\* fails with NotFound, never with another error, and leaves the table
\* unchanged.  POST /mcp answers 401 first when no API key resolves.
C9_UnknownSessionAlwaysNotFound ==
    \A sid \in SessionIds \ DOMAIN sessions :
        /\ \A req \in PostTo(sid) :
             postMcp(req).status = "404" /\ postMcp(req).sessions = sessions
        /\ \A req \in GetTo(sid) :
             getMcp(req).status = "404" /\ getMcp(req).sessions = sessions

\* C9, amended: a request that names a session absent from the table leaves
\* the table unchanged; it fails with NotFound when it passes the credential
\* checks that precede routing (the bearer middleware, and for POST the
\* resolution of an API key), and with the credential error otherwise.  The
\* same for identifiers never issued, closed by DELETE and reclaimed.
C9_UnknownSessionNotFound ==
    \A sid \in SessionIds \ DOMAIN sessions :
        /\ \A req \in PostTo(sid) :
             /\ postMcp(req).sessions = sessions
             /\ postMcp(req).status =
                  IF ~BearerOk(req) THEN "bearerAuth"
                  ELSE IF ~KeyAvailable(req) THEN "401" ELSE "404"
        /\ \A req \in GetTo(sid) :
             /\ getMcp(req).sessions = sessions
             /\ getMcp(req).status = IF ~BearerOk(req) THEN "bearerAuth" ELSE "404"

\* A reclaimed identifier and a never-issued one, each asked for with a
\* credential that resolves and with one that does not.
C9_Witness ==
    /\ \E sid \in reclaimed : \E req \in PostTo(sid) : postMcp(req).status = "404"
    /\ \E sid \in reclaimed : \E req \in PostTo(sid) : postMcp(req).status = "401"
    /\ \E sid \in SessionIds : sid >= nextTransport /\ \E req \in GetTo(sid) :
         getMcp(req).status = "404"

\* C10 as stated: a request whose session identifier is in the table has
\* the session's lastActivity set to now and is forwarded to the session's
\* transport, and is never rejected for another reason.  POST /mcp rejects
\* it with 401 when no API key resolves.
C10_RouteDecidedByMembership ==
    \A sid \in DOMAIN sessions :
        \A req \in PostTo(sid) :
            /\ postMcp(req).status = "forwarded"
            /\ postMcp(req).sessions = [sessions EXCEPT ![sid].lastActivity = now]
            /\ postMcp(req).forwardTo = sessions[sid].transport

\* C10, amended: a request that passes the credential checks preceding
\* routing has two outcomes decided by table membership: NotFound when its
\* session identifier is absent, and when it is present the session's
\* lastActivity becomes now, nothing else in the table changes, and the
\* request is forwarded to that session's transport.  A request that fails
\* the credential checks is rejected whether or not its session exists.
C10_RouteAfterCredentials ==
    /\ \A sid \in SessionIds : \A req \in PostTo(sid) :
         LET r == postMcp(req)
         IN  IF BearerOk(req) /\ KeyAvailable(req)
             THEN IF sid \in DOMAIN sessions
                  THEN /\ r.status = "forwarded"
                       /\ r.sessions = [sessions EXCEPT ![sid].lastActivity = now]
                       /\ r.forwardTo = sessions[sid].transport
                  ELSE r.status = "404" /\ r.sessions = sessions
             ELSE r.status \in {"bearerAuth", "401"} /\ r.sessions = sessions
    /\ \A sid \in SessionIds : \A req \in GetTo(sid) :
         LET r == getMcp(req)
         IN  IF BearerOk(req)
             THEN IF sid \in DOMAIN sessions
                  THEN /\ r.status = "forwarded"
                       /\ r.sessions = [sessions EXCEPT ![sid].lastActivity = now]
                       /\ r.forwardTo = sessions[sid].transport
                  ELSE r.status = "404" /\ r.sessions = sessions
             ELSE r.status = "bearerAuth" /\ r.sessions = sessions
    /\ \A sid \in DOMAIN sessions : sessions[sid].lastActivity = lastRouted[sid]

\* A session that a later request was routed to, in a deployment where the
\* key comes with the request.
C10_Witness ==
    \E sid \in DOMAIN sessions :
        /\ SERVER_API_KEY = Undefined
        /\ lastRouted[sid] > createdAt[sid]
        /\ sessions[sid].lastActivity = lastRouted[sid]
        /\ \E req \in PostTo(sid) : postMcp(req).status = "forwarded"
        /\ \E req \in PostTo(sid) : postMcp(req).status = "401"

DeleteTo(sid) == GetTo(sid)
Gone == reclaimed \cup closedIds

\* C11 as stated: closing a session that is absent from the table, because
\* it was closed before or reclaimed, reports no error.  DELETE /mcp answers
\* such a request 404.
C11_CloseAbsentNoError ==
    \A sid \in Gone \ DOMAIN sessions :
        \A req \in DeleteTo(sid) :
            deleteMcp(req).status \notin {"400", "401", "404", "bearerAuth"}

\* C11, amended: closing a session that is absent from the table changes
\* neither the table nor any transport.  The handler's own removal, when it
\* resumes after the transport call and finds the session already removed by
\* the transport or by a reclaim sweep, is a no-op; a DELETE request that
\* names an absent session never reaches a transport and is answered
\* NotFound (or the bearer rejection), not success.
C11_CloseAbsentNoOp ==
    /\ [](\A sid \in SessionIds \ DOMAIN sessions :
            \A req \in DeleteTo(sid) :
                deleteMcp(req).status = IF BearerOk(req) THEN "404" ELSE "bearerAuth")
    /\ [][\A sid \in DOMAIN deleting \ DOMAIN sessions :
            sid \notin DOMAIN deleting' =>
                /\ sessions' = sessions
                /\ transport' = transport
                /\ reclaimed' = reclaimed /\ closedIds' = closedIds]_vars

\* A DELETE whose handler is about to resume for a session that a sweep has
\* reclaimed in the meantime, while a second DELETE for it gets 404.
C11_Witness ==
    \E sid \in reclaimed :
        /\ sid \in DOMAIN deleting
        /\ deleting[sid].pc = "finish"
        /\ sid \notin DOMAIN sessions
        /\ \E req \in DeleteTo(sid) : deleteMcp(req).status = "404"

\* The session identifier a transport has drawn (0: none yet).
SessionOf(tid) == transport[tid].sessionId
\* Transports whose session-open response has left the server.
Answered == { tid \in DOMAIN transport : SessionOf(tid) # 0 /\ tid \notin responding }

\* C12: a new session is in the session table before its session-open
\* response is delivered: while the response is still to be sent the session
\* is already registered, and once it has been sent every request that bears
\* the new identifier (and a credential the route accepts) is routed to the
\* session, for as long as the session has not been closed or reclaimed.
C12_RegisteredBeforeResponse ==
    /\ \A tid \in responding :
         /\ SessionOf(tid) # 0
         /\ SessionOf(tid) \in DOMAIN sessions \cup Gone
    /\ \A tid \in Answered :
         SessionOf(tid) \notin Gone =>
           /\ SessionOf(tid) \in DOMAIN sessions
           /\ sessions[SessionOf(tid)].transport = tid
           /\ \A req \in PostTo(SessionOf(tid)) :
                (BearerOk(req) /\ KeyAvailable(req)) => postMcp(req).status = "forwarded"
           /\ \A req \in GetTo(SessionOf(tid)) :
                BearerOk(req) => getMcp(req).status = "forwarded"

\* A session whose response has been delivered and to which a later request
\* has been routed.
C12_Witness ==
    \E tid \in Answered :
        /\ SessionOf(tid) \in DOMAIN sessions
        /\ lastRouted[SessionOf(tid)] > createdAt[SessionOf(tid)]
        /\ \E req \in PostTo(SessionOf(tid)) : postMcp(req).status = "forwarded"

\* Whether a body is an initialization message or a batch that contains one.
OpensSession(body) ==
    IF body.batch
    THEN "initialize" \in { body.methods[i] : i \in DOMAIN body.methods }
    ELSE body.methods = <<"initialize">>

\* C13 as stated: a request with no session identifier starts the creation
\* of a session only if its body is or contains an initialization message,
\* and otherwise is rejected with the client error that says a session
\* identifier is required (400), nothing being created.  A POST for which
\* no API key resolves is answered 401 instead.
C13_OpenOnlyOnInitialize ==
    \A req \in PostTo(0) :
        LET r == postMcp(req)
        IN  /\ r.status = "create" => OpensSession(req.body)
            /\ ~OpensSession(req.body) => r.status = "400" /\ r.sessions = sessions

\* C13, amended: a request with no session identifier starts the creation
\* of a session only if its body is or contains an initialization message
\* and a credential resolves for it; a request that passes the credential
\* checks with any other body is rejected with the client error that says a
\* session identifier is required (400), one that fails them with the
\* credential error (401); in neither case is a session, transport or
\* adapter created.  GET and DELETE without a session identifier are
\* rejected with 400 as well.
C13_OpenOnInitializeWithKey ==
    /\ \A req \in PostTo(0) :
         LET r == postMcp(req)
         IN  /\ r.sessions = sessions
             /\ r.status =
                  IF ~BearerOk(req) THEN "bearerAuth"
                  ELSE IF ~KeyAvailable(req) THEN "401"
                  ELSE IF OpensSession(req.body) THEN "create" ELSE "400"
             /\ r.status = "create" <=> r.apiKey # Undefined
    /\ \A req \in GetTo(0) :
         /\ getMcp(req).status = IF BearerOk(req) THEN "400" ELSE "bearerAuth"
         /\ getMcp(req).sessions = sessions
         /\ deleteMcp(req).status = IF BearerOk(req) THEN "400" ELSE "bearerAuth"
    /\ DOMAIN transport = 1..(nextTransport - 1)
    /\ DOMAIN sessions \cup DOMAIN opening \subseteq DOMAIN transport

\* A session has been opened, and the server is asked to open one by a
\* batch that contains an initialization message, by a body that does not,
\* and without a credential.
C13_Witness ==
    /\ nextTransport > 1
    /\ SERVER_API_KEY = Undefined
    /\ \E req \in PostTo(0) : req.body.batch /\ postMcp(req).status = "create"
    /\ \E req \in PostTo(0) : postMcp(req).status = "400"
    /\ \E req \in PostTo(0) : ~OpensSession(req.body) /\ postMcp(req).status = "401"

(***************************************************************************)
(* C14.  The key resolved for a request follows the precedence: the        *)
(* server's GEMINI_API_KEY when it is set; else, with OAuth enabled, the   *)
(* secret of the form body behind the Bearer token when that token was     *)
(* issued and has not expired; else, only with OAuth disabled, the text    *)
(* after "Bearer " when there is any; else null.  This holds for every     *)
(* header a caller can send, in every deployment mode and whatever has     *)
(* become of the tokens issued so far.                                     *)
(***************************************************************************)
SendableCredentials ==
    IF oauthEnabled THEN Credentials ELSE { c \in Credentials : c.kind # "token" }
Verified(cred) ==
    /\ oauthEnabled
    /\ cred.kind = "token"
    /\ cred.token \in DOMAIN grantOf
    /\ ~PastExpiry(cred.token)

C14_SecretPrecedence ==
    \A cred \in SendableCredentials :
        LET m == authMiddleware(tokens, now, cred)
            r == resolveApiKey(m.tokens, now, cred, m.auth)
        IN  r.key = IF SERVER_API_KEY # Undefined THEN SERVER_API_KEY
                    ELSE IF Verified(cred) THEN Some(BodyOf(cred.token).gemini_api_key)
                    ELSE IF ~oauthEnabled /\ cred.kind = "text" THEN Some(cred.text)
                    ELSE Undefined

\* Without a server key and with OAuth on, one token is live while another
\* has expired and a request presenting it has had its record removed.
C14_Witness ==
    /\ SERVER_API_KEY = Undefined
    /\ oauthEnabled
    /\ \E t \in DOMAIN tokens : ~PastExpiry(t)
    /\ \E u \in DOMAIN grantOf \ DOMAIN tokens : PastExpiry(u)

(***************************************************************************)
(* C15, as claimed.  With GEMINI_API_KEY set, a request to POST /mcp or    *)
(* GET /mcp passes the credential checks whatever header it carries, and   *)
(* no token record is looked at, with OAuth enabled or not.                *)
(***************************************************************************)
C15_StaticKeyBypassesEngine ==
    SERVER_API_KEY # Undefined =>
        /\ \A req \in PostRequests :
              /\ postMcp(req).status \notin {"bearerAuth", "401"}
              /\ postMcp(req).tokens = tokens
        /\ \A req \in BodilessRequests :
              /\ getMcp(req).status # "bearerAuth"
              /\ getMcp(req).tokens = tokens

(***************************************************************************)
(* C15, amended.  With GEMINI_API_KEY set and OAuth disabled, a request    *)
(* passes the credential checks whatever header it carries and no token    *)
(* record is looked at.  With GEMINI_API_KEY set and OAuth enabled the     *)
(* Bearer token is still required and verified: the request is rejected by *)
(* the bearer middleware exactly when it does not present an issued,       *)
(* unexpired token.  In both modes no request is refused for a missing     *)
(* key, and a session that is opened gets the server's key, never the      *)
(* token's.                                                                *)
(***************************************************************************)
C15_StaticKeyBypassesLookup ==
    SERVER_API_KEY # Undefined =>
        /\ \A req \in Sendable(PostRequests) :
              LET r == postMcp(req)
              IN  /\ r.status # "401"
                  /\ r.status = "bearerAuth" <=> (oauthEnabled /\ ~Verified(req.cred))
                  /\ ~oauthEnabled => r.tokens = tokens
                  /\ r.status = "create" => r.apiKey = SERVER_API_KEY
        /\ \A req \in Sendable(BodilessRequests) :
              LET r == getMcp(req)
              IN  /\ r.status = "bearerAuth" <=> (oauthEnabled /\ ~Verified(req.cred))
                  /\ ~oauthEnabled => r.tokens = tokens

\* With both GEMINI_API_KEY and PUBLIC_URL set, one token is live while
\* another has expired and a request presenting it has been turned away,
\* its record removed.
C15_Witness ==
    /\ SERVER_API_KEY # Undefined
    /\ oauthEnabled
    /\ \E t \in DOMAIN tokens : ~PastExpiry(t)
    /\ \E u \in DOMAIN grantOf \ DOMAIN tokens : PastExpiry(u)

(***************************************************************************)
(* C16.  The steps of shutdown happen in this order.  The call of shutdown *)
(* first clears the reclaim interval, then for every session in the table  *)
(* calls close on its transport and deletes its entry, and last closes the *)
(* HTTP server; it leaves the table empty, each of those transports closed *)
(* once more, and the server no longer listening.  Once the interval is    *)
(* cleared no sweep reclaims anything, and the process exits only after    *)
(* the interval is cleared and the server has stopped listening.           *)
(***************************************************************************)
ShutdownCalls == shutdown(sessions, transport).calls
Signalled == cleanupTimer /\ ~cleanupTimer'

C16_ShutdownOrder ==
    /\ [](LET c == ShutdownCalls
               n == Len(c)
           IN  /\ n = 2 + 2 * Cardinality(DOMAIN sessions)
               /\ c[1].call = "clearInterval"
               /\ c[n].call = "server.close"
               /\ \A sid \in DOMAIN sessions :
                     \E i \in 2..(n - 2) :
                        /\ c[i] = [call |-> "transport.close", id |-> sid]
                        /\ c[i + 1] = [call |-> "sessions.delete", id |-> sid])
    /\ [][Signalled =>
             /\ sessions' = <<>>
             /\ \A sid \in DOMAIN sessions :
                   transport'[sessions[sid].transport].closeCalls =
                       transport[sessions[sid].transport].closeCalls + 1
             /\ ~listening'
             /\ ~exited']_vars
    /\ [][~cleanupTimer => reclaimed' = reclaimed]_vars
    /\ [](~listening => ~cleanupTimer)
    /\ [](exited => ~listening /\ ~cleanupTimer)
    /\ [][~exited /\ exited' => ~listening /\ ~cleanupTimer /\ UNCHANGED sessions]_vars

\* The process has exited after a shutdown that closed a session's transport
\* which no sweep had reclaimed.
C16_Witness ==
    /\ exited
    /\ reclaimed = {}
    /\ \E tid \in DOMAIN transport :
          /\ transport[tid].sessionId # 0
          /\ transport[tid].closeCalls = 1

(***************************************************************************)
(* C17.  After a termination signal the process eventually exits, even     *)
(* when a client keeps its connection open: once the server has stopped    *)
(* listening, exit follows.                                                *)
(***************************************************************************)
C17_ShutdownReachesExit == ~listening ~> exited

(***************************************************************************)
(* C18.  exchangeRefreshToken throws in every state, with a message that   *)
(* is neither of the two verifyAccessToken throws on any token at any      *)
(* instant, nor the one an exchange of a code throws; a call changes       *)
(* neither the code map nor the token map.                                 *)
(***************************************************************************)
C18_RefreshAlwaysFails ==
    /\ [](/\ exchangeRefreshToken.status = "error"
          /\ \A t \in TokenIds, time \in Instants :
                LET v == verifyAccessToken(tokens, time, t)
                IN  v.status = "error" => v.val # exchangeRefreshToken.val
          /\ \A c \in CodeIds :
                LET x == exchangeAuthorizationCode(codes, tokens, now, c)
                IN  x.status = "error" => x.val # exchangeRefreshToken.val)
    /\ [][ExchangeRefreshToken => codes' = codes /\ tokens' = tokens]_vars

\* A stored token is past its expiry, another identifier was never issued,
\* and a code is pending: both token errors can be told from the refresh one.
C18_Witness ==
    /\ \E t \in DOMAIN tokens : PastExpiry(t)
    /\ TokenIds \ DOMAIN grantOf # {}
    /\ codes # <<>>

(***************************************************************************)
(* C19.  exchangeAuthorizationCode gives the same result for a code that   *)
(* was never issued and for one that was issued and has been exchanged:    *)
(* the same error, "Unknown authorization code", at every instant, with    *)
(* the code and token maps left as they were.                              *)
(***************************************************************************)
C19_ConsumedLooksUnknown ==
    \A c, d \in CodeIds :
        (c \notin DOMAIN issued /\ okCount[d] >= 1) =>
            \A time \in Instants :
                LET rc == exchangeAuthorizationCode(codes, tokens, time, c)
                    rd == exchangeAuthorizationCode(codes, tokens, time, d)
                IN  /\ rc = rd
                    /\ rd.status = "error"
                    /\ rd.val = "Unknown authorization code"
                    /\ rd.codes = codes /\ rd.tokens = tokens

\* One code has been exchanged, another is pending, a third was never issued.
C19_Witness ==
    /\ \E d \in DOMAIN issued : okCount[d] = 1
    /\ codes # <<>>
    /\ CodeIds \ DOMAIN issued # {}

(***************************************************************************)
(* C20.  challengeForAuthorizationCode only reads.  For a code that was    *)
(* issued and not yet exchanged it returns the code_challenge of the form  *)
(* body the code was issued for, however many token requests have looked   *)
(* it up, and the code can still be exchanged; for a code never issued or  *)
(* already exchanged it throws "Unknown authorization code".  A lookup     *)
(* changes neither the code map nor the token map.                         *)
(***************************************************************************)
C20_ChallengeReadOnly ==
    /\ [](\A c \in CodeIds :
            LET r == challengeForAuthorizationCode(codes, c)
            IN  /\ (c \in DOMAIN issued /\ okCount[c] = 0) =>
                      /\ r = [status |-> "ok", val |-> issued[c].code_challenge]
                      /\ c \in DOMAIN codes
                      /\ exchangeAuthorizationCode(codes, tokens, now, c).status = "ok"
                /\ (c \notin DOMAIN issued \/ okCount[c] >= 1) =>
                      r = [status |-> "error", val |-> "Unknown authorization code"])
    /\ [][passed' # passed => codes' = codes /\ tokens' = tokens]_vars

\* Two token requests have looked a code up and it is still pending.
C20_Witness ==
    \E c \in DOMAIN codes : passed[c] >= 2

(***************************************************************************)
(* C21.  The expiry of a token is fixed when it is issued: no step changes *)
(* a stored record, and the expiry stored is the one recorded at issuance. *)
(* Once the clock has passed it, verifyAccessToken throws and              *)
(* getGeminiApiKey returns nothing for the token, now and at every later   *)
(* instant, whatever is called in between; a record that has been removed  *)
(* never comes back.                                                       *)
(***************************************************************************)
C21_ExpiryIsFinal ==
    /\ [](\A t \in DOMAIN tokens :
            /\ t \in DOMAIN grantOf
            /\ tokens[t].expiresAt = grantOf[t].expiresAt)
    /\ [](\A t \in DOMAIN grantOf :
            PastExpiry(t) =>
                \A time \in Instants :
                    time >= now =>
                        /\ verifyAccessToken(tokens, time, t).status = "error"
                        /\ getGeminiApiKey(tokens, time, t).val = Undefined)
    /\ [][\A t \in DOMAIN tokens : t \in DOMAIN tokens' => tokens'[t] = tokens[t]]_vars
    /\ [][\A t \in DOMAIN grantOf : t \notin DOMAIN tokens => t \notin DOMAIN tokens']_vars

\* One token was verified after its expiry and its record is gone, while a
\* token issued later is still valid.
C21_Witness ==
    /\ \E t \in verifiedLate : t \notin DOMAIN tokens
    /\ \E u \in DOMAIN tokens : ~PastExpiry(u)

C24_ContinueUsesChat ==
    (/\ calls # <<>>
     /\ calls[Len(calls)].name = "generate_image"
     /\ calls[Len(calls)].savedPath # 0) =>
        /\ hasActiveSession(chatSession)
        /\ \A response \in Responses :
              routeToolCall("continue_editing", response).result.via = "sendMessage"

(***************************************************************************)
(* C25.  The exchange of a pending code, at whatever instant, removes that *)
(* code and no other from the code map, adds one record to the token map   *)
(* under a value not in it before, with the client identifier, the scopes  *)
(* and the key of the form body the code was issued for, leaves every      *)
(* other token record as it was, and returns that value with token_type    *)
(* "bearer" and expires_in equal to TOKEN_TTL_SECONDS.                     *)
(***************************************************************************)
C25_ExchangeFrame ==
    \A c \in DOMAIN codes, time \in Instants :
        LET r == exchangeAuthorizationCode(codes, tokens, time, c)
            t == r.val.access_token
        IN  /\ r.status = "ok"
            /\ r.codes = [d \in DOMAIN codes \ {c} |-> codes[d]]
            /\ t \notin DOMAIN tokens
            /\ DOMAIN r.tokens = DOMAIN tokens \cup {t}
            /\ \A u \in DOMAIN tokens : r.tokens[u] = tokens[u]
            /\ r.tokens[t].clientId = issued[c].client_id
            /\ r.tokens[t].scopes = RequestedScopes(issued[c].scopes)
            /\ r.tokens[t].geminiApiKey = issued[c].gemini_api_key
            /\ r.val.token_type = "bearer"
            /\ r.val.expires_in = TOKEN_TTL_SECONDS

\* A code has been exchanged for a token while the grant of a different
\* form, one that asks for scopes, is still pending.
C25_Witness ==
    \E t \in DOMAIN tokens, d \in DOMAIN codes :
        /\ issued[d] # BodyOf(t)
        /\ issued[d].scopes # <<>>

(***************************************************************************)
(* C26.  The expiry stored for a token is its issuance instant plus        *)
(* TOKEN_TTL_SECONDS: a token issued at any instant is accepted by         *)
(* verifyAccessToken at every later instant up to TOKEN_TTL_SECONDS after  *)
(* it, and rejected at every instant beyond, times being in milliseconds.  *)
(***************************************************************************)
C26_LifetimeIsTtl ==
    \A c \in DOMAIN codes, issuedAt \in Instants, time \in Instants :
        time >= issuedAt =>
            LET x == exchangeAuthorizationCode(codes, tokens, issuedAt, c)
                t == x.val.access_token
                v == verifyAccessToken(x.tokens, time, t)
            IN  /\ x.tokens[t].expiresAt * MsPerSecond
                      = issuedAt + TOKEN_TTL_SECONDS * MsPerSecond
                /\ v.status = "ok" <=> time - issuedAt <= TOKEN_TTL_SECONDS * MsPerSecond

(***************************************************************************)
(* C27.  verifyAccessToken and getGeminiApiKey agree.  On every token, at  *)
(* every instant, getGeminiApiKey returns a key exactly when               *)
(* verifyAccessToken returns, and the two leave the same token map: the    *)
(* record of a stored token that has expired is removed by whichever is    *)
(* called first, and nothing else is touched.                              *)
(***************************************************************************)
C27_VerifyAndLookupAgree ==
    \A t \in TokenIds, time \in Instants :
        LET v == verifyAccessToken(tokens, time, t)
            g == getGeminiApiKey(tokens, time, t)
        IN  /\ g.val # Undefined <=> v.status = "ok"
            /\ g.tokens = v.tokens
            /\ (t \in DOMAIN tokens /\ time > grantOf[t].expiresAt * MsPerSecond) =>
                  g.tokens = Remove(tokens, t)
            /\ (t \notin DOMAIN tokens \/ time <= grantOf[t].expiresAt * MsPerSecond) =>
                  g.tokens = tokens

\* One expired token has been removed by a key lookup, no verification
\* having seen it, while another expired token is still stored.
C27_Witness ==
    /\ \E t \in DOMAIN tokens : PastExpiry(t)
    /\ \E u \in DOMAIN grantOf \ DOMAIN tokens : u \notin verifiedLate

C29_SweepSurvivesClose ==
    [][reclaimed' # reclaimed =>
         /\ \A sid \in DOMAIN sessions :
               now - sessions[sid].lastActivity > SESSION_TIMEOUT_MS =>
                   /\ sid \notin DOMAIN sessions'
                   /\ transport'[sessions[sid].transport].closeCalls =
                          transport[sessions[sid].transport].closeCalls + 1
         /\ ~exited'
         /\ cleanupTimer']_vars

(***************************************************************************)
(* C30.  A form submission that lacks the client identifier, the redirect  *)
(* target, the PKCE challenge or the secret, or that names a client that   *)
(* is not in the registry, is answered with a 4xx status, issues no code   *)
(* and leaves the code map as it was; a submission with every required     *)
(* field and a registered client stores exactly one new code.  Every code  *)
(* ever issued was issued for such a submission.                           *)
(***************************************************************************)
C30_Complete(body) ==
    /\ body.client_id # 0
    /\ body.redirect_uri # ""
    /\ body.code_challenge # ""
    /\ body.gemini_api_key # ""

C30_IncompleteIssuesNothing ==
    /\ \A body \in FormBodies :
          LET res == authorizeSubmit(codes, body)
          IN  IF C30_Complete(body) /\ body.client_id \in DOMAIN clients
              THEN /\ res.status = 302
                   /\ \E code \in DOMAIN res.codes \ DOMAIN codes :
                         /\ DOMAIN res.codes = DOMAIN codes \cup {code}
                         /\ res.val.code = code
                   /\ \A code \in DOMAIN codes : res.codes[code] = codes[code]
              ELSE /\ res.status \in 400..499
                   /\ res.codes = codes
    /\ \A code \in DOMAIN codes \cup DOMAIN issued :
          /\ code \in DOMAIN issued
          /\ C30_Complete(issued[code])
          /\ issued[code].client_id \in DOMAIN clients

\* A code has been issued, submissions with a missing field are on offer, and
\* so is a complete one that names a client the registry does not hold.
C30_Witness ==
    /\ DOMAIN codes # {}
    /\ \E body \in FormBodies :
          C30_Complete(body) /\ body.client_id \notin DOMAIN clients
    /\ \E body \in FormBodies :
          body.gemini_api_key = "" /\ body.client_id \in DOMAIN clients

(***************************************************************************)
(* C31.  With authorization enabled, a session is created only for a       *)
(* session-open request whose bearer token the engine holds and has not    *)
(* expired, and the session's adapter is given the key stored with that    *)
(* token; a request with no token, an unknown one or an expired one        *)
(* creates no session and leaves the session table as it was.              *)
(***************************************************************************)
C31_OpensWith(req, key) ==
    LET r == postMcp(req)
    IN  IF LiveToken(req.cred) /\ isInitializeRequest(req.body)
        THEN r.status = "create" /\ r.apiKey = key
        ELSE r.status # "create" /\ r.sessions = sessions

C31_Opened(keys) ==
    /\ \A tid \in DOMAIN opening' \ DOMAIN opening :
          /\ \E t \in DOMAIN tokens : ~Expired(tokens, now, t)
          /\ opening'[tid].apiKey \in keys
    /\ \A sid \in DOMAIN sessions' \ DOMAIN sessions :
          /\ sessions'[sid].transport \in DOMAIN opening
          /\ sessions'[sid].mcp = opening[sessions'[sid].transport]

C31_SessionBoundToTokenSecret ==
    /\ [](oauthEnabled =>
            \A req \in { q \in PostRequests : q.sessionId = 0 } :
                C31_OpensWith(req, IF LiveToken(req.cred)
                                   THEN Some(tokens[req.cred.token].geminiApiKey)
                                   ELSE Undefined))
    /\ [][oauthEnabled => C31_Opened(ApiKeys)]_vars

(***************************************************************************)
(* C31, amended.  With authorization enabled, a session is created only    *)
(* for a session-open request whose bearer token the engine holds and has  *)
(* not expired; the session's adapter is given the server's static key     *)
(* when one is configured, and otherwise the key stored with that token.   *)
(* A request with no token, an unknown one or an expired one creates no    *)
(* session and leaves the session table as it was.                         *)
(***************************************************************************)
C31_SessionBoundToResolvedSecret ==
    /\ [](oauthEnabled =>
            \A req \in { q \in PostRequests : q.sessionId = 0 } :
                C31_OpensWith(req, IF SERVER_API_KEY # Undefined
                                   THEN SERVER_API_KEY
                                   ELSE IF LiveToken(req.cred)
                                   THEN Some(tokens[req.cred.token].geminiApiKey)
                                   ELSE Undefined))
    /\ [][oauthEnabled =>
            C31_Opened(IF SERVER_API_KEY # Undefined
                       THEN SERVER_API_KEY
                       ELSE { tokens[t].geminiApiKey : t \in DOMAIN tokens })]_vars

\* A session bound to the server's key was opened with a token that carries
\* another key and is still valid; a request without a header is on offer.
C31_Witness ==
    /\ oauthEnabled
    /\ \E sid \in DOMAIN sessions :
          /\ SERVER_API_KEY = Some(sessions[sid].mcp.apiKey)
          /\ \E t \in DOMAIN tokens :
                /\ ~Expired(tokens, now, t)
                /\ tokens[t].geminiApiKey # sessions[sid].mcp.apiKey

C33_CloseRemovesAndCloses ==
    /\ [][\A sid \in DOMAIN deleting \ DOMAIN deleting' :
            /\ sid \notin DOMAIN sessions'
            /\ transport'[deleting[sid].transport].closeCalls > 0]_vars
    /\ [](\A sid \in closedIds :
            /\ \A req \in PostTo(sid) :
                  BearerOk(req) /\ KeyAvailable(req) => postMcp(req).status = "404"
            /\ \A req \in GetTo(sid) : BearerOk(req) => getMcp(req).status = "404")

(***************************************************************************)
(* C34.  However explicit close, reclaim sweep and shutdown interleave on  *)
(* a session, a sweep or a shutdown that runs while the DELETE handler is  *)
(* awaiting the transport included, close is invoked on the session's      *)
(* transport at most once.                                                 *)
(***************************************************************************)
C34_CloseAtMostOnce ==
    \A tid \in DOMAIN transport : transport[tid].closeCalls <= 1

\* The sweep has reclaimed a session whose DELETE handler is still awaiting
\* the transport, and shutdown has run since; the transport was closed once.
C34_Witness ==
    \E sid \in DOMAIN deleting \cap reclaimed :
        /\ ~cleanupTimer
        /\ transport[deleting[sid].transport].closeCalls = 1

(***************************************************************************)
(* C35.  Once shutdown has closed the sessions, the session table is empty *)
(* and stays empty until the process exits: no session-open request that   *)
(* was in flight at the signal, or that arrives afterwards on a connection *)
(* still open, adds a session.                                             *)
(***************************************************************************)
C35_EmptyAfterShutdown ==
    ~listening /\ ~exited => sessions = <<>>

(***************************************************************************)
(* C36.  Every transport, with the adapter connected to it, that a         *)
(* session-open request has created ends up registered in the session      *)
(* table or closed: once the handling of the request is over, also when    *)
(* the transport has rejected the initialization message, the transport    *)
(* has been registered or close has been invoked on it.                    *)
(***************************************************************************)
C36_NoTransportLeftBehind ==
    \A tid \in DOMAIN transport :
        \/ tid \in DOMAIN opening
        \/ transport[tid].sessionId # 0
        \/ transport[tid].closeCalls > 0

(***************************************************************************)
(* C37.  Tenant isolation of sessions: a request is forwarded to a         *)
(* session's transport only if the key resolved from the request's own     *)
(* credential is the key the session was opened with.  A caller with       *)
(* another valid credential who presents the session's identifier is not   *)
(* forwarded, by POST, GET or DELETE.                                      *)
(***************************************************************************)
C37_ResolvedKey(req) ==
    LET mw == authMiddleware(tokens, now, req.cred)
    IN  resolveApiKey(mw.tokens, now, req.cred, mw.auth).key

C37_ForwardedOnlyToOwnSession ==
    \A sid \in DOMAIN sessions :
        /\ \A req \in PostTo(sid) :
              postMcp(req).status = "forwarded" =>
                  C37_ResolvedKey(req) = Some(sessions[sid].mcp.apiKey)
        /\ \A req \in GetTo(sid) :
              /\ getMcp(req).status = "forwarded" =>
                    C37_ResolvedKey(req) = Some(sessions[sid].mcp.apiKey)
              /\ deleteMcp(req).status = "forwarded" =>
                    C37_ResolvedKey(req) = Some(sessions[sid].mcp.apiKey)

(***************************************************************************)
(* C38.  A pending authorization has no expiry.  A code that has been      *)
(* issued and not exchanged stays in the code map with the key it was      *)
(* issued for, whatever time passes and whatever else is done; at every    *)
(* instant from now on its exchange would succeed and store that key with  *)
(* the token.  A code leaves the map only in a step that is its own        *)
(* successful exchange.                                                    *)
(***************************************************************************)
C38_PendingNeverExpires ==
    /\ [](\A c \in DOMAIN codes :
            /\ c \in DOMAIN issued
            /\ codes[c].geminiApiKey = issued[c].gemini_api_key
            /\ \A time \in Instants :
                  time >= now =>
                      LET r == exchangeAuthorizationCode(codes, tokens, time, c)
                      IN  /\ r.status = "ok"
                          /\ r.tokens[r.val.access_token].geminiApiKey
                                = issued[c].gemini_api_key)
    /\ [][\A c \in DOMAIN codes :
            IF c \in DOMAIN codes'
            THEN codes'[c] = codes[c] /\ okCount'[c] = okCount[c]
            ELSE okCount'[c] = okCount[c] + 1]_vars

\* A code is still pending although a code issued after it was exchanged
\* for a token that has since outlived its lifetime.
C38_Witness ==
    \E c \in DOMAIN codes, t \in DOMAIN grantOf :
        grantOf[t].code > c /\ PastExpiry(t)

(***************************************************************************)
(* C39.  A session's lastActivity never decreases while the clock does not *)
(* go back.  It is the present time when the session enters the table and  *)
(* after every POST or GET that is routed to the session; no other step    *)
(* changes it: not a rejected request, not a DELETE awaiting its           *)
(* transport, not a sweep that keeps the session, not the passing of time. *)
(***************************************************************************)
C39_Routed(sid) ==
    \/ \E req \in PostTo(sid) :
          postMcp(req).status = "forwarded" /\ sessions' = postMcp(req).sessions
    \/ \E req \in GetTo(sid) :
          getMcp(req).status = "forwarded" /\ sessions' = getMcp(req).sessions

C39_LastActivityMonotone ==
    /\ [](\A sid \in DOMAIN sessions :
            /\ createdAt[sid] <= sessions[sid].lastActivity
            /\ sessions[sid].lastActivity <= now
            /\ \A req \in PostTo(sid) :
                  LET r == postMcp(req)
                  IN  r.status = "forwarded" => r.sessions[sid].lastActivity = now
            /\ \A req \in GetTo(sid) :
                  LET r == getMcp(req)
                  IN  r.status = "forwarded" => r.sessions[sid].lastActivity = now)
    /\ [][\A sid \in DOMAIN sessions' :
            IF sid \in DOMAIN sessions
            THEN /\ sessions'[sid].lastActivity >= sessions[sid].lastActivity
                 /\ sessions'[sid].lastActivity # sessions[sid].lastActivity =>
                       /\ sessions'[sid].lastActivity = now
                       /\ C39_Routed(sid)
            ELSE sessions'[sid].lastActivity = now']_vars

\* A session was routed to after its creation; since then time has passed
\* and a sweep has run and kept it, with lastActivity where the request
\* left it.
C39_Witness ==
    \E sid \in spared \cap DOMAIN sessions :
        /\ createdAt[sid] < sessions[sid].lastActivity
        /\ sessions[sid].lastActivity < now
        /\ sessions[sid].lastActivity = lastRouted[sid]

(***************************************************************************)
(* C40.  Within one adapter lastImagePath is null until a generate_image,  *)
(* edit_image or continue_editing call saves an image, and from then on it *)
(* is the path saved by the latest such call to have saved one.  A call    *)
(* that saves no image or that throws leaves it as it was, and so does     *)
(* get_last_image_info.  continue_editing while it is null throws          *)
(* InvalidRequest, whatever the upstream API would answer, and leaves      *)
(* lastImagePath and the chat session as they were.                        *)
(***************************************************************************)
RECURSIVE C40_LastSaved(_)
C40_LastSaved(history) ==
    IF history = <<>> THEN 0
    ELSE LET last == history[Len(history)]
         IN  IF ~last.thrown /\ last.savedPath # 0
             THEN last.savedPath
             ELSE C40_LastSaved(SubSeq(history, 1, Len(history) - 1))

====
